---------------------------- MODULE Spec2Model ----------------------------
(***************************************************************************)
(* Model of the embc / pyembc stream stack:                                *)
(*   - pyembc.stream.transport.Transport and _Port (segmentation,          *)
(*     reassembly, port registration, event fan-out),                      *)
(*   - the Data Link (send window, acknowledgement, retransmission) with   *)
(*     the embc.stream.framer.Framer timer glue,                           *)
(*   - pyembc.stream.pubsub.PubSub and _Topic (topic tree, retained        *)
(*     values, subscribers),                                               *)
(*   - the typed payload codec of pyembc.stream.transport,                 *)
(*   - pyembc.stream.pubsub_port.PubSubPort (PubSub over a Transport port), *)
(*   - pyembc.stream.port0_server.Port0Server (connection state, META scan, *)
(*     echo) with the peer that answers it.                                *)
(*                                                                         *)
(* Several specifications share the module.  Each one starts from the      *)
(* state after construction and only runs the operations of one part of    *)
(* the stack; the variables of the other parts keep their initial values.  *)
(***************************************************************************)
EXTENDS Integers, Naturals, Sequences, FiniteSets, TLC

VARIABLES
    \* ---- pyembc.stream.transport.Transport
    ports,          \* _ports[i].port : the registered handler of each port, or None
    msgs,           \* _ports[i]._msg : the fragments buffered on each port
    last_tx_event,  \* Transport._last_tx_event
    sendLog,        \* calls made to send_fn(metadata, payload), in order
    recvLog,        \* calls made to a handler's on_recv(port_data, msg), in order
    eventLog,       \* calls made to a handler's on_event(event), in order
    rxHist,         \* arguments of the calls to Transport.on_recv, in order
    evHist,         \* arguments of the calls to Transport.on_event, in order
    regHist,        \* arguments of the calls to Transport.register_port, in order
    txHist,         \* arguments of the calls to Transport.send, in order
    wire,           \* fragments emitted by send and not yet fed back to on_recv
    \* ---- Data Link, sending side A
    tx_frame_id,    \* id the next DATA frame gets
    txWindow,       \* Send Window: outstanding DATA frames, oldest first
    connected,      \* TRUE after TX_CONNECTED, FALSE after TX_DISCONNECTED
    tx_count,       \* status counter: DATA frames sent for the first time
    txLog,          \* message of every DATA frame handed to the byte pipe, in order
    doneLog,        \* calls made to the sender's send-done callback, in order
    linkEvents,     \* connection events emitted by the sender, in order
    \* ---- embc.stream.framer.Framer timer glue of side A
    timeout,        \* Framer.timeout: None, or a deadline ahead / behind time.time()
    timer_cbk,      \* Framer._timer_cbk: the default or the retransmit callback
    \* ---- byte pipe between the two sides
    chanAB,         \* frames written by A and not yet read by B, oldest first
    chanBA,         \* frames written by B and not yet read by A, oldest first
    lossCount,      \* frames destroyed by the channel so far
    \* ---- Data Link, receiving side B
    rx_expected,    \* rx_expected_frame_id: the receive head
    rxBuf,          \* frames received ahead of the head, waiting for it
    deliverLog,     \* calls made to the receiver's port callback, in order
    \* ---- pyembc.stream.pubsub.PubSub
    topics,         \* the _Topic nodes reachable from PubSub._root, by topic name
    calls,          \* subscriber callbacks invoked by the last PubSub call, in order
    lastOp,         \* the last PubSub call: its arguments and its outcome
    cycle,          \* progress of a subscribe / unsubscribe / subscribe sequence
    \* ---- pyembc.stream.transport payload codec
    codec,          \* a value on its way through payload_encode and payload_decode
    \* ---- pyembc.stream.pubsub_port.PubSubPort
    pport,          \* the last exchange over the port: send on one side, on_recv on the other
    \* ---- pyembc.stream.port0_server.Port0Server
    port0,          \* the fields of the Port0Server object
    peerTaken,      \* number of messages the peer has taken off the link
    \* ---- pyembc.stream.stream_tester.StreamTester
    tester          \* the StreamTester, its two StreamInterfaces and what their callbacks got

tvars == <<ports, msgs, last_tx_event, sendLog, recvLog, eventLog,
           rxHist, evHist, regHist, txHist, wire>>

lvars == <<tx_frame_id, txWindow, connected, tx_count, txLog,
           doneLog, linkEvents, timeout, timer_cbk, chanAB, chanBA, lossCount,
           rx_expected, rxBuf, deliverLog>>

pvars == <<topics, calls, lastOp, cycle>>

cvars == <<codec>>

xvars == <<pport>>

svars == <<port0, peerTaken>>

kvars == <<tester>>

vars == <<tvars, lvars, pvars, cvars, xvars, svars, kvars>>

\* what an operation of one part leaves alone: the state of the other parts
nonTransport == <<lvars, pvars, cvars, xvars, svars, kvars>>

nonLink == <<tvars, pvars, cvars, xvars, svars, kvars>>

nonPubSub == <<tvars, lvars, cvars, xvars, svars, kvars>>

nonTester == <<tvars, lvars, pvars, cvars, xvars, svars>>

nonCodec == <<tvars, lvars, pvars, xvars, svars, kvars>>

-----------------------------------------------------------------------------
(* Program constants *)

PORTS_MAX == 31

PAYLOAD_MAX == 256

PORT_DATA_MASK == 65535

None == "None"

TX_DISCONNECTED == "TX_DISCONNECTED"

TX_CONNECTED == "TX_CONNECTED"

RX_RESET_REQUEST == "RX_RESET_REQUEST"

Events == {TX_DISCONNECTED, TX_CONNECTED, RX_RESET_REQUEST}

SEQ_MIDDLE == 0

SEQ_STOP == 1

SEQ_START == 2

SEQ_SINGLE == SEQ_START + SEQ_STOP

PortIds == 0 .. PORTS_MAX

FRAME_ID_BITS == 11

FrameIdMod == 2 ^ FRAME_ID_BITS

MAX_RETRIES == 16

SUCCESS == 0

TIMED_OUT == 11

-----------------------------------------------------------------------------
(* Bounds of the model *)

\* longest message sent is MaxSegs full fragments plus one byte
MaxSegs == 3

\* number of Transport.send calls
MaxSends == 1

\* number of Transport.on_recv calls with injected fragments
MaxRecv == 4

\* number of Transport.on_event calls
MaxEvents == 2

\* number of Transport.register_port calls
MaxReg == 2

\* number of Transport.register_port calls that close or replace an open port
MaxClose == 1

\* number of RX_RESET_REQUEST events while fragments arrive
MaxResets == 1

\* TX_WINDOW, the capacity of the Send Window (configurable, default 64)
TxWindow == 2

\* number of DATA frames sent over the lossy link
MaxLinkSends == 4

\* number of frames the byte pipe destroys
MaxLoss == 2

\* number of retransmissions over the lossy link
MaxRetx == 2

\* number of DATA frames sent into the dead link
MaxDeadSends == 2

MaxAckQueue == 2

\* frame ids in use when the run starts: a fresh link, and one about to wrap
StartIds == {0, FrameIdMod - 2}

\* ports, handlers and port_data values the operations are called with
TestPorts == {2, 3}

Handlers == {"h1", "h2"}

TestPortData == {4660, 65535}

\* message lengths around every fragment boundary: 0, 1, 255, 256, 257, 511, ...
TestLens == {n \in 0 .. (MaxSegs * PAYLOAD_MAX + 1) :
                \E k \in 0 .. MaxSegs : \E d \in {-1, 0, 1} : n = k * PAYLOAD_MAX + d}

\* message bytes as in test_segment: msg[idx] = (idx & 0xff) + (idx >> 8), as uint8
TestMsg(n) == [i \in 1 .. n |-> (((i - 1) % 256) + ((i - 1) \div 256)) % 256]

-----------------------------------------------------------------------------
(* pyembc.stream.transport: metadata fields *)

\* seq = (metadata >> 6) & 0x03
SeqOf(metadata) == (metadata \div 64) % 4

\* port_data = (metadata >> 8) & 0xffff
PortDataOf(metadata) == (metadata \div 256) % (PORT_DATA_MASK + 1)

\* port_id = metadata & PORTS_MAX
PortIdOf(metadata) == metadata % (PORTS_MAX + 1)

\* metadata = (port_data << 8) | port_id | (seq << 6); the three fields do not
\* overlap for port_id <= 31, so the bitwise or is a sum
MetadataOf(port_data, port_id, seq) == port_data * 256 + port_id + seq * 64

\* seq & 2 and seq & 1
IsStart(seq) == (seq \div 2) % 2 = 1

IsStop(seq) == seq % 2 = 1

\* np.concatenate(self._msg)
RECURSIVE Concat(_)
Concat(frags) == IF frags = <<>> THEN <<>> ELSE Head(frags) \o Concat(Tail(frags))


-----------------------------------------------------------------------------
(* pyembc.stream.transport._Port *)

\* _Port.on_event: forward to the handler when there is one
PortOnEvent(port_id, handler, event) ==
    IF handler # None
    THEN <<[port |-> port_id, handler |-> handler, event |-> event]>>
    ELSE <<>>

\* _Port.on_recv, lines 118-120: a START/SINGLE on a non-empty buffer resets it
PortReset(buf, seq) == IF IsStart(seq) /\ Len(buf) > 0 THEN <<>> ELSE buf

\* _Port.on_recv, line 123: every fragment is appended (an orphan MIDDLE/STOP on
\* an empty buffer only logs a warning, lines 121-122)
PortAppend(buf, seq, msg) == Append(PortReset(buf, seq), msg)

\* _Port.on_recv: the buffer left behind
PortMsgAfter(buf, metadata, msg) ==
    IF IsStop(SeqOf(metadata)) THEN <<>> ELSE PortAppend(buf, SeqOf(metadata), msg)

\* _Port.on_recv: the calls made to the handler's on_recv
PortDeliver(port_id, handler, buf, metadata, msg) ==
    IF IsStop(SeqOf(metadata)) /\ handler # None
    THEN <<[port |-> port_id, handler |-> handler,
            port_data |-> PortDataOf(metadata),
            msg |-> Concat(PortAppend(buf, SeqOf(metadata), msg))]>>
    ELSE <<>>

-----------------------------------------------------------------------------
(* pyembc.stream.transport.Transport *)

\* Transport.on_event, lines 139-140
LastTxEventAny(last, event) == event

LastTxEvent(last, event) ==
    IF event = TX_CONNECTED \/ event = TX_DISCONNECTED THEN event ELSE last

\* the loop leaves after the first port that has a handler
RECURSIVE EventFanoutFirst(_, _, _)
EventFanoutFirst(i, ps, event) ==
    IF i > PORTS_MAX THEN <<>>
    ELSE IF ps[i] # None THEN PortOnEvent(i, ps[i], event)
    ELSE EventFanoutFirst(i + 1, ps, event)

\* Transport.on_event, lines 141-142: for port in self._ports: port.on_event(event)
RECURSIVE EventFanout(_, _, _)
EventFanout(i, ps, event) ==
    IF i > PORTS_MAX THEN <<>>
    ELSE PortOnEvent(i, ps[i], event) \o EventFanout(i + 1, ps, event)

\* seq |= 1
Or1(seq) == IF seq % 2 = 1 THEN seq ELSE seq + 1

\* Transport.send, lines 156-166: the fragments handed to send_fn
RECURSIVE SendLoopGe(_, _, _, _)
SendLoopGe(port_id, port_data, msg, seq) ==
    IF Len(msg) = 0 THEN <<>>
    ELSE IF Len(msg) >= PAYLOAD_MAX
         THEN <<[metadata |-> MetadataOf(port_data, port_id, seq),
                 payload |-> SubSeq(msg, 1, PAYLOAD_MAX)]>>
              \o SendLoopGe(port_id, port_data,
                            SubSeq(msg, PAYLOAD_MAX + 1, Len(msg)), 0)
         ELSE <<[metadata |-> MetadataOf(port_data, port_id, Or1(seq)),
                 payload |-> msg]>>

RECURSIVE SendLoop(_, _, _, _)
SendLoop(port_id, port_data, msg, seq) ==
    IF Len(msg) = 0 THEN <<>>
    ELSE IF Len(msg) > PAYLOAD_MAX
         THEN <<[metadata |-> MetadataOf(port_data, port_id, seq),
                 payload |-> SubSeq(msg, 1, PAYLOAD_MAX)]>>
              \o SendLoop(port_id, port_data,
                          SubSeq(msg, PAYLOAD_MAX + 1, Len(msg)), 0)
         ELSE <<[metadata |-> MetadataOf(port_data, port_id, Or1(seq)),
                 payload |-> msg]>>

\* Transport.send: port_data = int(port_data) & 0xffff, then the loop from seq = 2
SendFragments(port_id, port_data, msg) ==
    SendLoop(port_id, port_data % (PORT_DATA_MASK + 1), msg, SEQ_START)

\* all ports share one buffer, as with self._ports = [_Port()] * (PORTS_MAX + 1)
OnRecvShared(metadata, msg) ==
    LET p == PortIdOf(metadata) IN
    /\ msgs' = [q \in PortIds |-> PortMsgAfter(msgs[p], metadata, msg)]
    /\ recvLog' = recvLog \o PortDeliver(p, ports[p], msgs[p], metadata, msg)
    /\ rxHist' = Append(rxHist, [metadata |-> metadata, payload |-> msg])

\* Transport.on_recv: route the fragment to the port named in the metadata
OnRecv(metadata, msg) ==
    LET p == PortIdOf(metadata) IN
    /\ msgs' = [msgs EXCEPT ![p] = PortMsgAfter(msgs[p], metadata, msg)]
    /\ recvLog' = recvLog \o PortDeliver(p, ports[p], msgs[p], metadata, msg)
    /\ rxHist' = Append(rxHist, [metadata |-> metadata, payload |-> msg])

-----------------------------------------------------------------------------
(* Data Link: frame ids *)

NextId(id) == (id + 1) % FrameIdMod

\* difference of two frame ids interpreted as signed, modulo the id space
IdDiff(a, b) ==
    LET d == (a - b) % FrameIdMod
    IN  IF d >= FrameIdMod \div 2 THEN d - FrameIdMod ELSE d

DataFrame(e) == [type |-> "DATA", id |-> e.id, msg |-> e.msg]

AckFrame(id) == [type |-> "ACK", id |-> id]

NackFrame(id) == [type |-> "NACK", id |-> id]

-----------------------------------------------------------------------------
(* embc.stream.framer.Framer: timer glue *)

\* Framer.timeout against time.time(): no timer, deadline ahead, deadline passed
DeadlineAhead == "ahead"

DeadlinePassed == "passed"

TimerDefault == "timer_cbk_default"

TimerRetransmit == "retransmit_cbk"

\* Framer._hal_timer_set: timeout = time.time() + dt, _timer_cbk = [cbk_fn, ...]
HalTimerSet == [timeout |-> DeadlineAhead, timer_cbk |-> TimerRetransmit]

\* the timer is cleared after the callback ran instead of before it
ProcessTimerLate(rearmed) == [timeout |-> None, timer_cbk |-> TimerDefault]

\* Framer.process, lines 259-262: the timer is cleared, then the callback runs;
\* `rearmed` tells whether the callback called _hal_timer_set
ProcessTimer(rearmed) ==
    IF rearmed THEN HalTimerSet ELSE [timeout |-> None, timer_cbk |-> TimerDefault]

-----------------------------------------------------------------------------
(* Data Link: sending side *)

\* the retransmit scan of the Send Window run by the timer callback: an entry
\* whose RETRANSMIT_TIMEOUT has passed is sent again while retransmit is below
\* MAX_RETRANSMIT, else it fails with TIMED_OUT, leaves the window and
\* TX_DISCONNECTED is emitted
RECURSIVE RetransmitScan(_)
RetransmitScan(w) ==
    IF w = <<>>
    THEN [window |-> <<>>, frames |-> <<>>, done |-> <<>>, events |-> <<>>]
    ELSE LET e == Head(w)
             r == RetransmitScan(Tail(w))
         IN  IF ~e.due
             THEN [r EXCEPT !.window = <<e>> \o @]
             ELSE IF e.retransmit < MAX_RETRIES
             THEN [r EXCEPT !.window = <<[e EXCEPT !.retransmit = @ + 1,
                                                   !.due = FALSE]>> \o @,
                            !.frames = <<DataFrame(e)>> \o @]
             ELSE [r EXCEPT !.done = <<[msg |-> e.msg, status |-> TIMED_OUT]>> \o @,
                            !.events = <<TX_DISCONNECTED>> \o @]

\* what the timer callback does for the callback registered
TimerCallback(cbk, w) ==
    IF cbk = TimerRetransmit THEN RetransmitScan(w)
    ELSE [window |-> w, frames |-> <<>>, done |-> <<>>, events |-> <<>>]

FrameMsgs(frames) == [i \in 1 .. Len(frames) |-> frames[i].msg]

\* Send path: the window is not full; the frame gets the next id, enters the
\* window with retransmit = 0 and goes to the byte pipe; the timer is started
DlSend ==
    /\ Len(txWindow) < TxWindow
    /\ LET e == [id |-> tx_frame_id, msg |-> tx_count + 1,
                 retransmit |-> 0, due |-> FALSE]
       IN  /\ txWindow' = Append(txWindow, e)
           /\ chanAB' = Append(chanAB, DataFrame(e))
           /\ txLog' = Append(txLog, e.msg)
    /\ tx_frame_id' = NextId(tx_frame_id)
    /\ tx_count' = tx_count + 1
    /\ IF timeout = None
       THEN /\ timeout' = HalTimerSet.timeout
            /\ timer_cbk' = HalTimerSet.timer_cbk
       ELSE UNCHANGED <<timeout, timer_cbk>>
    /\ UNCHANGED <<connected, doneLog, linkEvents, chanBA, lossCount,
                   rx_expected, rxBuf, deliverLog>>
    /\ UNCHANGED nonLink

\* RETRANSMIT_TIMEOUT passes: the deadline is behind time.time() and every frame
\* in the window has waited for its acknowledgement that long
Elapse ==
    /\ timeout = DeadlineAhead
    /\ timeout' = DeadlinePassed
    /\ txWindow' = [i \in 1 .. Len(txWindow) |-> [txWindow[i] EXCEPT !.due = TRUE]]
    /\ UNCHANGED <<tx_frame_id, connected, tx_count, txLog, doneLog, linkEvents,
                   timer_cbk, chanAB, chanBA, lossCount, rx_expected, rxBuf,
                   deliverLog>>
    /\ UNCHANGED nonLink

\* Framer.process() with the deadline passed: the timer callback runs
Process ==
    /\ timeout = DeadlinePassed
    /\ LET r == TimerCallback(timer_cbk, txWindow)
           t == ProcessTimer(r.window # <<>>)
       IN  /\ txWindow' = r.window
           /\ chanAB' = chanAB \o r.frames
           /\ txLog' = txLog \o FrameMsgs(r.frames)
           /\ doneLog' = doneLog \o r.done
           /\ linkEvents' = linkEvents \o r.events
           /\ connected' = IF r.events # <<>> THEN FALSE ELSE connected
           /\ timeout' = t.timeout
           /\ timer_cbk' = t.timer_cbk
    /\ UNCHANGED <<tx_frame_id, tx_count, chanBA, lossCount, rx_expected, rxBuf,
                   deliverLog>>
    /\ UNCHANGED nonLink

\* the matching entry stays in the Send Window when its ACK arrives
WindowKeep(w, id) == w

\* Ack path: the matching entry leaves the window and send-done is called with
\* SUCCESS; an ACK received while disconnected emits TX_CONNECTED
WindowWithout(w, id) == SelectSeq(w, LAMBDA e : e.id # id)

AckDone(w, id) ==
    LET m == SelectSeq(w, LAMBDA e : e.id = id)
    IN  [i \in 1 .. Len(m) |-> [msg |-> m[i].msg, status |-> SUCCESS]]

DlRecvAck ==
    /\ chanBA # <<>>
    /\ chanBA' = Tail(chanBA)
    /\ IF Head(chanBA).type = "ACK"
       THEN /\ txWindow' = WindowWithout(txWindow, Head(chanBA).id)
            /\ doneLog' = doneLog \o AckDone(txWindow, Head(chanBA).id)
            /\ connected' = TRUE
            /\ linkEvents' = IF connected THEN linkEvents
                             ELSE Append(linkEvents, TX_CONNECTED)
       ELSE UNCHANGED <<txWindow, doneLog, connected, linkEvents>>
    /\ UNCHANGED <<tx_frame_id, tx_count, txLog, timeout, timer_cbk, chanAB,
                   lossCount, rx_expected, rxBuf, deliverLog>>
    /\ UNCHANGED nonLink

-----------------------------------------------------------------------------
(* Data Link: receiving side *)

\* the buffered frames that are contiguous from the head, in id order
RECURSIVE Drain(_, _)
Drain(expected, buf) ==
    IF \E b \in buf : b.id = expected
    THEN LET b == CHOOSE x \in buf : x.id = expected
         IN  <<b>> \o Drain(NextId(expected), buf \ {b})
    ELSE <<>>

RECURSIVE Advance(_, _)
Advance(id, n) == IF n = 0 THEN id ELSE Advance(NextId(id), n - 1)

\* Receive path on DATA(frame_id) for a frame at or ahead of the head: at the
\* head deliver, advance and drain; ahead within the window buffer; both are
\* answered with ACK; too far ahead is answered with NACK and changes nothing
RxAccept(f, expected, buf) ==
    LET d == IdDiff(f.id, expected) IN
    IF d = 0
    THEN LET out == <<[id |-> f.id, msg |-> f.msg]>> \o Drain(NextId(expected), buf)
         IN  [deliver |-> out,
              expected |-> Advance(expected, Len(out)),
              buf |-> buf \ {out[i] : i \in 1 .. Len(out)},
              reply |-> AckFrame(f.id)]
    ELSE IF d <= TxWindow
    THEN [deliver |-> <<>>, expected |-> expected,
          buf |-> buf \cup {[id |-> f.id, msg |-> f.msg]}, reply |-> AckFrame(f.id)]
    ELSE [deliver |-> <<>>, expected |-> expected, buf |-> buf,
          reply |-> NackFrame(f.id)]

\* a frame behind the head is delivered again instead of being dropped
RxDataNoDedup(f, expected, buf) ==
    IF IdDiff(f.id, expected) < 0
    THEN [deliver |-> <<[id |-> f.id, msg |-> f.msg]>>, expected |-> expected,
          buf |-> buf, reply |-> AckFrame(f.id)]
    ELSE RxAccept(f, expected, buf)

\* Receive path on DATA(frame_id): a frame behind the head is a duplicate, it
\* is not delivered and is answered with ACK
RxData(f, expected, buf) ==
    IF IdDiff(f.id, expected) < 0
    THEN [deliver |-> <<>>, expected |-> expected, buf |-> buf,
          reply |-> AckFrame(f.id)]
    ELSE RxAccept(f, expected, buf)

DlRecvData ==
    /\ chanAB # <<>>
    /\ chanAB' = Tail(chanAB)
    /\ LET r == RxData(Head(chanAB), rx_expected, rxBuf)
       IN  /\ deliverLog' = deliverLog \o r.deliver
           /\ rx_expected' = r.expected
           /\ rxBuf' = r.buf
           /\ chanBA' = Append(chanBA, r.reply)
    /\ UNCHANGED <<tx_frame_id, txWindow, connected, tx_count, txLog, doneLog,
                   linkEvents, timeout, timer_cbk, lossCount>>
    /\ UNCHANGED nonLink

-----------------------------------------------------------------------------
(* Byte pipe: a frame hit by a dropped byte, an inserted byte or a bit error
   fails its CRC and is discarded by the receiving Framer *)

LoseAB ==
    /\ chanAB # <<>>
    /\ chanAB' = Tail(chanAB)
    /\ lossCount' = lossCount + 1
    /\ UNCHANGED <<tx_frame_id, txWindow, connected, tx_count, txLog, doneLog,
                   linkEvents, timeout, timer_cbk, chanBA, rx_expected, rxBuf,
                   deliverLog>>
    /\ UNCHANGED nonLink

LoseBA ==
    /\ chanBA # <<>>
    /\ chanBA' = Tail(chanBA)
    /\ lossCount' = lossCount + 1
    /\ UNCHANGED <<tx_frame_id, txWindow, connected, tx_count, txLog, doneLog,
                   linkEvents, timeout, timer_cbk, chanAB, rx_expected, rxBuf,
                   deliverLog>>
    /\ UNCHANGED nonLink

\* the state of both sides with `start` frames exchanged and acknowledged before
LInit(start) ==
    /\ tx_frame_id = start % FrameIdMod
    /\ txWindow = <<>>
    /\ connected = (start > 0)
    /\ tx_count = start
    /\ txLog = <<>>
    /\ doneLog = <<>>
    /\ linkEvents = <<>>
    /\ timeout = None
    /\ timer_cbk = TimerDefault
    /\ chanAB = <<>>
    /\ chanBA = <<>>
    /\ lossCount = 0
    /\ rx_expected = start % FrameIdMod
    /\ rxBuf = {}
    /\ deliverLog = <<>>

-----------------------------------------------------------------------------
(* pyembc.stream.pubsub: topic names *)

\* a topic name is a string, held as the sequence of its characters
SLASH == "/"

\* str.split('/')
RECURSIVE Split(_)
Split(s) ==
    IF s = <<>> THEN << <<>> >>
    ELSE LET r == Split(Tail(s))
         IN  IF Head(s) = SLASH THEN << <<>> >> \o r
             ELSE << <<Head(s)>> \o Head(r) >> \o Tail(r)

\* '/'.join(parts)
RECURSIVE Join(_)
Join(parts) ==
    IF parts = <<>> THEN <<>>
    ELSE IF Len(parts) = 1 THEN parts[1]
    ELSE parts[1] \o <<SLASH>> \o Join(Tail(parts))

\* bool(x) of an optional flag given as None, True or False
PyTrue == "True"

PyFalse == "False"

PyBool(x) == x = PyTrue

-----------------------------------------------------------------------------
(* pyembc.stream.pubsub._Topic *)

ROOT == <<>>

\* _Topic.__init__: no value, no metadata, no children, no subscribers; an
\* optional object is held as <<>> when it is None and as <<x>> otherwise: the
\* parent of a node, the metadata of a node
NewTopic(parent) ==
    [value |-> None, meta |-> <<>>, parent |-> parent, children |-> <<>>,
     subscribers |-> <<>>]

InSeq(x, s) == \E i \in 1 .. Len(s) : s[i] = x

\* the publish call a subscriber gets: subscriber(self._topic, x, retain)
PublishCall(cbk, t, x, retain) == [cbk |-> cbk, args |-> <<t, x, retain>>]

\* the replay call a new subscriber gets: cbk(self._topic, self._value)
ReplayCall(cbk, t, x) == [cbk |-> cbk, args |-> <<t, x>>]

\* the subscribers of one node that a publish invokes, in list order
NotifyNode(subs, t, x, retain, src_cbk) ==
    LET s == SelectSeq(subs, LAMBDA c : c # src_cbk)
    IN  [i \in 1 .. Len(s) |-> PublishCall(s[i], t, x, retain)]

\* src_cbk is skipped at the published node only, not at its ancestors
RECURSIVE NotifySrcAtTopic(_, _, _, _, _, _)
NotifySrcAtTopic(tp, node, t, x, retain, src_cbk) ==
    NotifyNode(tp[node].subscribers, t, x, retain, IF node = t THEN src_cbk ELSE None)
      \o (IF tp[node].parent = <<>> THEN <<>>
          ELSE NotifySrcAtTopic(tp, tp[node].parent[1], t, x, retain, src_cbk))

\* the subscribers of an ancestor are invoked with the name of the ancestor
RECURSIVE NotifyOwnName(_, _, _, _, _, _)
NotifyOwnName(tp, node, t, x, retain, src_cbk) ==
    NotifyNode(tp[node].subscribers, node, x, retain, src_cbk)
      \o (IF tp[node].parent = <<>> THEN <<>>
          ELSE NotifyOwnName(tp, tp[node].parent[1], t, x, retain, src_cbk))

\* _Topic.publish, lines 63-71: walk from the node up to the root
RECURSIVE Notify(_, _, _, _, _, _)
Notify(tp, node, t, x, retain, src_cbk) ==
    NotifyNode(tp[node].subscribers, t, x, retain, src_cbk)
      \o (IF tp[node].parent = <<>> THEN <<>>
          ELSE Notify(tp, tp[node].parent[1], t, x, retain, src_cbk))

\* the value is stored whatever retain is
TopicPublishStores(tp, t, x, retain, src_cbk) ==
    IF tp[t].value = x
    THEN [topics |-> tp, calls |-> <<>>]
    ELSE [topics |-> [tp EXCEPT ![t].value = x],
          calls |-> Notify(tp, t, t, x, retain, src_cbk)]

\* _Topic.publish
TopicPublish(tp, t, x, retain, src_cbk) ==
    IF PyBool(retain) /\ tp[t].value = x
    THEN [topics |-> tp, calls |-> <<>>]
    ELSE [topics |-> IF PyBool(retain) THEN [tp EXCEPT ![t].value = x] ELSE tp,
          calls |-> Notify(tp, t, t, x, retain, src_cbk)]

\* _Topic._publish_new_subscriber: the children in dict order, then the node
RECURSIVE PublishNewSubscriber(_, _, _)
RECURSIVE ReplayChildren(_, _, _)
PublishNewSubscriber(tp, t, cbk) ==
    ReplayChildren(tp, tp[t].children, cbk)
      \o (IF tp[t].value # None THEN <<ReplayCall(cbk, t, tp[t].value)>> ELSE <<>>)

ReplayChildren(tp, ch, cbk) ==
    IF ch = <<>> THEN <<>>
    ELSE PublishNewSubscriber(tp, Head(ch).node, cbk) \o ReplayChildren(tp, Tail(ch), cbk)

\* the callback is appended also when it is in the list already
TopicSubscribeAppend(tp, t, cbk, skip_retained) ==
    LET tp1 == [tp EXCEPT ![t].subscribers = Append(@, cbk)]
    IN  [topics |-> tp1,
         calls |-> IF PyBool(skip_retained) THEN <<>>
                   ELSE PublishNewSubscriber(tp1, t, cbk)]

\* the retained values are replayed also with skip_retained
TopicSubscribeNoSkip(tp, t, cbk, skip_retained) ==
    LET tp1 == IF InSeq(cbk, tp[t].subscribers) THEN tp
               ELSE [tp EXCEPT ![t].subscribers = Append(@, cbk)]
    IN  [topics |-> tp1, calls |-> PublishNewSubscriber(tp1, t, cbk)]

\* _Topic.subscribe
TopicSubscribe(tp, t, cbk, skip_retained) ==
    LET tp1 == IF InSeq(cbk, tp[t].subscribers) THEN tp
               ELSE [tp EXCEPT ![t].subscribers = Append(@, cbk)]
    IN  [topics |-> tp1,
         calls |-> IF PyBool(skip_retained) THEN <<>>
                   ELSE PublishNewSubscriber(tp1, t, cbk)]

\* the list is left as it is
ListRemoveKeep(s, x) == s

\* list.remove(x): the first occurrence is removed
RECURSIVE ListRemove(_, _)
ListRemove(s, x) ==
    IF s = <<>> THEN <<>>
    ELSE IF Head(s) = x THEN Tail(s)
    ELSE <<Head(s)>> \o ListRemove(Tail(s), x)

-----------------------------------------------------------------------------
(* pyembc.stream.pubsub.PubSub *)

\* t.children.get(part)
ChildOf(ch, part) ==
    LET m == SelectSeq(ch, LAMBDA c : c.part = part)
    IN  IF m = <<>> THEN <<>> ELSE <<m[1].node>>

\* PubSub._topic_find, lines 114-124: one part after the other; a missing child
\* is created as _Topic(t, '/'.join(parts_so_far)) and put last in t.children
RECURSIVE TopicWalk(_, _, _, _, _)
TopicWalk(tp, t, parts, k, create) ==
    IF k > Len(parts) THEN [topics |-> tp, found |-> TRUE, t |-> t]
    ELSE LET child == ChildOf(tp[t].children, parts[k])
             subtopic == Join(SubSeq(parts, 1, k))
         IN  IF child # <<>>
             THEN TopicWalk(tp, child[1], parts, k + 1, create)
             ELSE IF create
             THEN TopicWalk(
                    [n \in DOMAIN tp \cup {subtopic} |->
                        IF n = subtopic THEN NewTopic(<<t>>)
                        ELSE IF n = t
                        THEN [tp[t] EXCEPT !.children =
                                Append(@, [part |-> parts[k], node |-> subtopic])]
                        ELSE tp[n]],
                    subtopic, parts, k + 1, create)
             ELSE [topics |-> tp, found |-> FALSE, t |-> ROOT]

\* PubSub._topic_find
TopicFind(tp, topic, create) ==
    IF Len(topic) > 0 THEN TopicWalk(tp, ROOT, Split(topic), 1, create)
    ELSE [topics |-> tp, found |-> TRUE, t |-> ROOT]

\* the record of a call: its name, its arguments, what it returned or raised
Call(op, topic, value, retain, cbk, skip, meta, result) ==
    [op |-> op, topic |-> topic, value |-> value, retain |-> retain, cbk |-> cbk,
     skip |-> skip, meta |-> meta, result |-> result]

Returned(x) == [error |-> None, value |-> x]

Raised(e) == [error |-> e, value |-> None]

\* subscribe(T, cbk), unsubscribe(T, cbk), subscribe(T, cbk) called one after the
\* other: stage counts how many of the three calls have been made
CycleReset == [stage |-> 0, topic |-> ROOT, cbk |-> None]

CycleAfterSubscribe(c, topic, cbk) ==
    IF c.stage = 2 /\ c.topic = topic /\ c.cbk = cbk
    THEN [stage |-> 3, topic |-> topic, cbk |-> cbk]
    ELSE [stage |-> 1, topic |-> topic, cbk |-> cbk]

CycleAfterUnsubscribe(c, topic, cbk) ==
    IF c.stage \in {1, 3} /\ c.topic = topic /\ c.cbk = cbk
    THEN [stage |-> 2, topic |-> topic, cbk |-> cbk]
    ELSE CycleReset

\* PubSub.__init__
PInit ==
    /\ topics = [n \in {ROOT} |-> NewTopic(<<>>)]
    /\ calls = <<>>
    /\ lastOp = Call("init", ROOT, None, None, None, None, <<>>, Returned(None))
    /\ cycle = CycleReset

\* _as_bool: the integers 0 and 1 are written "0" and "1", the strings are in
\* lower case; any other value raises ValueError
FalseWords == {"0", "no", "off", "disable", "disabled", "false", "inactive"}

TrueWords == {"1", "yes", "on", "enable", "enabled", "true", "active"}

AsBool(x) ==
    IF x \in FalseWords THEN PyFalse
    ELSE IF x \in TrueWords THEN PyTrue
    ELSE "ValueError"

\* a metadata dict: 'default' and 'retain' may be missing from it
Meta(has_default, default, retain) ==
    [brief |-> "brief", has_default |-> has_default, default |-> default,
     retain |-> retain]

\* meta.get('retain', 0)
MetaRetain(meta) == IF meta.retain = None THEN "0" ELSE meta.retain

\* PubSub.publish
PubSubPublish(topic, value, retain, src_cbk) ==
    /\ IF Len(topic) = 0
       THEN /\ UNCHANGED topics
            /\ calls' = <<>>
            /\ lastOp' = Call("publish", topic, value, retain, src_cbk, None, <<>>,
                              Raised("ValueError"))
       ELSE LET f == TopicFind(topics, topic, TRUE)
                r == TopicPublish(f.topics, f.t, value, retain, src_cbk)
            IN  /\ topics' = r.topics
                /\ calls' = r.calls
                /\ lastOp' = Call("publish", topic, value, retain, src_cbk, None,
                                  <<>>, Returned(None))
    /\ cycle' = CycleReset
    /\ UNCHANGED nonPubSub

\* PubSub.meta
PubSubMeta(topic, meta) ==
    /\ LET f == TopicFind(topics, topic, TRUE)
       IN  topics' = [f.topics EXCEPT ![f.t].meta = meta]
    /\ calls' = <<>>
    /\ lastOp' = Call("meta", topic, None, None, None, None, meta, Returned(None))
    /\ cycle' = CycleReset
    /\ UNCHANGED nonPubSub

\* PubSub.get, lines 161-163: the lookup found no node
GetMissing(f) == ~f.found

\* PubSub.get
PubSubGet(topic) ==
    /\ LET f == TopicFind(topics, topic, FALSE)
       IN  lastOp' = Call("get", topic, None, None, None, None, <<>>,
                          IF GetMissing(f) THEN Raised("KeyError")
                          ELSE Returned(topics[f.t].value))
    /\ calls' = <<>>
    /\ cycle' = CycleReset
    /\ UNCHANGED topics
    /\ UNCHANGED nonPubSub

\* PubSub.subscribe
PubSubSubscribe(topic, cbk, skip_retained) ==
    /\ LET f == TopicFind(topics, topic, TRUE)
           r == TopicSubscribe(f.topics, f.t, cbk, skip_retained)
       IN  /\ topics' = r.topics
           /\ calls' = r.calls
    /\ lastOp' = Call("subscribe", topic, None, None, cbk, skip_retained, <<>>,
                      Returned(None))
    /\ cycle' = CycleAfterSubscribe(cycle, topic, cbk)
    /\ UNCHANGED nonPubSub

\* PubSub.unsubscribe: list.remove raises ValueError when cbk is not in the list
PubSubUnsubscribe(topic, cbk) ==
    /\ LET f == TopicFind(topics, topic, TRUE)
       IN  IF InSeq(cbk, f.topics[f.t].subscribers)
           THEN /\ topics' = [f.topics EXCEPT
                                ![f.t].subscribers = ListRemove(@, cbk)]
                /\ lastOp' = Call("unsubscribe", topic, None, None, cbk, None, <<>>,
                                  Returned(None))
                /\ cycle' = CycleAfterUnsubscribe(cycle, topic, cbk)
           ELSE /\ topics' = f.topics
                /\ lastOp' = Call("unsubscribe", topic, None, None, cbk, None, <<>>,
                                  Raised("ValueError"))
                /\ cycle' = CycleReset
    /\ calls' = <<>>
    /\ UNCHANGED nonPubSub

\* the topic is created over an existing node
CreateExistsNever(f) == FALSE

\* PubSub.create, lines 189-191: the topic already exists
CreateExists(f) == f.found

\* PubSub.create, lines 192-199, for a topic that does not exist yet; _as_bool
\* may raise when the node is made and the metadata attached
CreateNew(tp, topic, meta, subscriber_cbk) ==
    LET f == TopicFind(tp, topic, TRUE)
        tp1 == [f.topics EXCEPT ![f.t].meta = meta]
        publishes == meta # <<>> /\ meta[1].has_default
        retain == IF publishes THEN AsBool(MetaRetain(meta[1])) ELSE PyFalse
        r1 == IF publishes /\ retain # "ValueError"
              THEN TopicPublish(tp1, f.t, meta[1].default, retain, subscriber_cbk)
              ELSE [topics |-> tp1, calls |-> <<>>]
        r2 == IF subscriber_cbk # None
              THEN TopicSubscribe(r1.topics, f.t, subscriber_cbk, None)
              ELSE [topics |-> r1.topics, calls |-> <<>>]
    IN  IF retain = "ValueError"
        THEN [topics |-> tp1, calls |-> <<>>, result |-> Raised("ValueError")]
        ELSE [topics |-> r2.topics, calls |-> r1.calls \o r2.calls,
              result |-> Returned(None)]

\* PubSub.create
PubSubCreate(topic, meta, subscriber_cbk) ==
    /\ IF CreateExists(TopicFind(topics, topic, FALSE))
       THEN /\ UNCHANGED topics
            /\ calls' = <<>>
            /\ lastOp' = Call("create", topic, None, None, subscriber_cbk, None, meta,
                              Raised("ValueError"))
       ELSE LET r == CreateNew(topics, topic, meta, subscriber_cbk)
            IN  /\ topics' = r.topics
                /\ calls' = r.calls
                /\ lastOp' = Call("create", topic, None, None, subscriber_cbk, None,
                                  meta, r.result)
    /\ cycle' = CycleReset
    /\ UNCHANGED nonPubSub

-----------------------------------------------------------------------------
(* pyembc.stream.transport: the typed payload codec *)

PAYLOAD_NULL == 0

PAYLOAD_U32 == 1

PAYLOAD_STR == 4

PAYLOAD_JSON == 5

PAYLOAD_BIN == 6

\* A Python value: its type and its content as a sequence of integers.
\*   NoneType: <<>>             int: <<n>>
\*   str: the code points       bin (bytes or uint8 ndarray): the bytes
\*   list: the integers in it   dict: key, value, key, value, ... with
\*                              one-character keys and integer values
\*   strdict (a dict of one string key and one string value): the length of
\*   the key, the code points of the key, the code points of the value
PyValue(kind, v) == [kind |-> kind, v |-> v]

PyNone == PyValue("NoneType", <<>>)

PyInt(n) == PyValue("int", <<n>>)

PyStr(s) == PyValue("str", s)

StrDict(k, v) == PyValue("strdict", <<Len(k)>> \o k \o v)

StrDictKey(x) == SubSeq(x.v, 2, 1 + x.v[1])

StrDictValue(x) == SubSeq(x.v, 2 + x.v[1], Len(x.v))

ValueError == PyValue("ValueError", <<>>)

JSONDecodeError == PyValue("JSONDecodeError", <<>>)

\* x[:-1]
ButLast(x) == SubSeq(x, 1, Len(x) - 1)

\* the UTF-8 bytes of one code point below 65536
Utf8Char(cp) ==
    IF cp < 128 THEN <<cp>>
    ELSE IF cp < 2048 THEN <<192 + (cp \div 64), 128 + (cp % 64)>>
    ELSE <<224 + (cp \div 4096), 128 + ((cp \div 64) % 64), 128 + (cp % 64)>>

\* str.encode('utf-8')
RECURSIVE Utf8Encode(_)
Utf8Encode(s) ==
    IF s = <<>> THEN <<>>
    ELSE IF Len(s) = 1 THEN Utf8Char(s[1])
    ELSE Utf8Encode(SubSeq(s, 1, Len(s) \div 2))
           \o Utf8Encode(SubSeq(s, Len(s) \div 2 + 1, Len(s)))

\* number of bytes the sequence starting with byte b takes, 0 for no start byte
Utf8Width(b) ==
    IF b < 128 THEN 1
    ELSE IF b >= 192 /\ b < 224 THEN 2
    ELSE IF b >= 224 /\ b < 240 THEN 3
    ELSE 0

Utf8CodePoint(b, n) ==
    IF n = 1 THEN b[1]
    ELSE IF n = 2 THEN (b[1] - 192) * 64 + (b[2] - 128)
    ELSE (b[1] - 224) * 4096 + (b[2] - 128) * 64 + (b[3] - 128)

\* bytes.decode('utf-8'): the code points, or a UnicodeDecodeError
RECURSIVE Utf8Decode(_)
Utf8Decode(b) ==
    IF b = <<>> THEN [ok |-> TRUE, s |-> <<>>]
    ELSE LET n == Utf8Width(b[1])
         IN  IF \/ n = 0
                \/ Len(b) < n
                \/ \E i \in 2 .. n : b[i] < 128 \/ b[i] > 191
             THEN [ok |-> FALSE, s |-> <<>>]
             ELSE LET cp == Utf8CodePoint(b, n)
                      rest == Utf8Decode(SubSeq(b, n + 1, Len(b)))
                  IN  IF \/ (n = 2 /\ cp < 128)
                         \/ (n = 3 /\ cp < 2048)
                         \/ (cp >= 55296 /\ cp <= 57343)
                         \/ ~rest.ok
                      THEN [ok |-> FALSE, s |-> <<>>]
                      ELSE [ok |-> TRUE, s |-> <<cp>> \o rest.s]

\* the four bytes with the most significant first
PackU32BigEndian(n) ==
    <<(n \div 16777216) % 256, (n \div 65536) % 256, (n \div 256) % 256, n % 256>>

\* struct.pack('<I', n)
PackU32(n) ==
    <<n % 256, (n \div 256) % 256, (n \div 65536) % 256, (n \div 16777216) % 256>>

\* struct.unpack('<I', x)[0]
UnpackU32(x) == x[1] + 256 * x[2] + 65536 * x[3] + 16777216 * x[4]

\* characters of the JSON text
LBRACKET == 91

RBRACKET == 93

LBRACE == 123

RBRACE == 125

COMMA == 44

COLON == 58

QUOTE == 34

SPACE == 32

ZERO == 48

BACKSLASH == 92

\* str(n) for n >= 0
RECURSIVE IntToDec(_)
IntToDec(n) ==
    IF n < 10 THEN <<ZERO + n>> ELSE IntToDec(n \div 10) \o <<ZERO + (n % 10)>>

\* sep.join(items)
RECURSIVE JoinSep(_, _)
JoinSep(items, sep) ==
    IF items = <<>> THEN <<>>
    ELSE IF Len(items) = 1 THEN items[1]
    ELSE items[1] \o sep \o JoinSep(Tail(items), sep)

\* the "key": value texts of a dict
RECURSIVE DictItems(_)
DictItems(v) ==
    IF v = <<>> THEN <<>>
    ELSE << <<QUOTE, v[1], QUOTE, COLON, SPACE>> \o IntToDec(v[2]) >>
         \o DictItems(SubSeq(v, 3, Len(v)))

\* json.dumps(x) with the default separators ', ' and ': '
JsonDumps(x) ==
    IF x.kind = "list"
    THEN <<LBRACKET>> \o JoinSep([i \in 1 .. Len(x.v) |-> IntToDec(x.v[i])], <<COMMA, SPACE>>)
         \o <<RBRACKET>>
    ELSE IF x.kind = "strdict"
    THEN <<LBRACE, QUOTE>> \o StrDictKey(x) \o <<QUOTE, COLON, SPACE, QUOTE>>
         \o StrDictValue(x) \o <<QUOTE, RBRACE>>
    ELSE <<LBRACE>> \o JoinSep(DictItems(x.v), <<COMMA, SPACE>>) \o <<RBRACE>>

\* the text without the white space around it
RECURSIVE Strip(_)
Strip(s) ==
    IF s = <<>> THEN s
    ELSE IF Head(s) = SPACE THEN Strip(Tail(s))
    ELSE IF s[Len(s)] = SPACE THEN Strip(ButLast(s))
    ELSE s

\* the pieces of s between the occurrences of character c
RECURSIVE SplitBy(_, _)
SplitBy(s, c) ==
    IF s = <<>> THEN << <<>> >>
    ELSE LET r == SplitBy(Tail(s), c)
         IN  IF Head(s) = c THEN << <<>> >> \o r
             ELSE << <<Head(s)>> \o Head(r) >> \o Tail(r)

\* a JSON number without sign, fraction or exponent
IsDec(t) ==
    /\ t # <<>>
    /\ \A i \in 1 .. Len(t) : t[i] >= ZERO /\ t[i] <= ZERO + 9
    /\ Len(t) > 1 => t[1] # ZERO

RECURSIVE DecToInt(_)
DecToInt(t) ==
    IF Len(t) = 1 THEN t[1] - ZERO
    ELSE DecToInt(ButLast(t)) * 10 + (t[Len(t)] - ZERO)

\* "k": n
IsDictItem(item) ==
    LET parts == SplitBy(item, COLON)
    IN  /\ Len(parts) = 2
        /\ Len(Strip(parts[1])) = 3
        /\ Strip(parts[1])[1] = QUOTE
        /\ Strip(parts[1])[2] # QUOTE
        /\ Strip(parts[1])[3] = QUOTE
        /\ IsDec(Strip(parts[2]))

\* a JSON string without escapes
Quoted(t) ==
    /\ Len(t) >= 2
    /\ t[1] = QUOTE
    /\ t[Len(t)] = QUOTE
    /\ \A i \in 2 .. Len(t) - 1 : t[i] # QUOTE /\ t[i] # BACKSLASH /\ t[i] >= SPACE

Unquote(t) == SubSeq(t, 2, Len(t) - 1)

\* "key": "value"
IsStrItem(item) ==
    LET parts == SplitBy(item, COLON)
    IN  /\ Len(parts) = 2
        /\ Quoted(Strip(parts[1]))
        /\ Quoted(Strip(parts[2]))

RECURSIVE DictOfItems(_)
DictOfItems(items) ==
    IF items = <<>> THEN <<>>
    ELSE LET parts == SplitBy(Head(items), COLON)
         IN  <<Strip(parts[1])[2], DecToInt(Strip(parts[2]))>> \o DictOfItems(Tail(items))

\* json.loads(s) for arrays of numbers, objects of numbers and objects of
\* one string; any other text is answered with JSONDecodeError
JsonLoads(s) ==
    LET t == Strip(s)
        inner == IF Len(t) >= 2 THEN Strip(SubSeq(t, 2, Len(t) - 1)) ELSE <<>>
        items == SplitBy(inner, COMMA)
    IN  IF Len(t) >= 2 /\ t[1] = LBRACKET /\ t[Len(t)] = RBRACKET
        THEN IF inner = <<>> THEN PyValue("list", <<>>)
             ELSE IF \A i \in 1 .. Len(items) : IsDec(Strip(items[i]))
             THEN PyValue("list", [i \in 1 .. Len(items) |-> DecToInt(Strip(items[i]))])
             ELSE JSONDecodeError
        ELSE IF Len(t) >= 2 /\ t[1] = LBRACE /\ t[Len(t)] = RBRACE
        THEN IF inner = <<>> THEN PyValue("dict", <<>>)
             ELSE IF \A i \in 1 .. Len(items) : IsDictItem(items[i])
             THEN PyValue("dict", DictOfItems(items))
             ELSE IF Len(items) = 1 /\ IsStrItem(items[1])
             THEN StrDict(Unquote(Strip(SplitBy(items[1], COLON)[1])),
                          Unquote(Strip(SplitBy(items[1], COLON)[2])))
             ELSE JSONDecodeError
        ELSE JSONDecodeError

\* _to_null
ToNull(x) == PyNone

\* _to_str
ToStr(x) ==
    IF Len(x) <= 1 THEN PyStr(<<>>)
    ELSE IF Utf8Decode(ButLast(x)).ok THEN PyStr(Utf8Decode(ButLast(x)).s)
    ELSE PyStr(<<>>)

\* _to_json
ToJson(x) ==
    IF Len(x) <= 1 THEN PyNone
    ELSE IF JsonLoads(ToStr(x).v) = JSONDecodeError THEN PyNone
    ELSE JsonLoads(ToStr(x).v)

\* _to_bin
ToBin(x) == PyValue("bin", x)

\* _to_u32
ToU32(x) == IF Len(x) # 4 THEN ValueError ELSE PyInt(UnpackU32(x))

Encoded(dtype, bytes) == [dtype |-> dtype, bytes |-> bytes, error |-> None]

EncodeFailed == [dtype |-> PAYLOAD_NULL, bytes |-> <<>>, error |-> "ValueError"]

\* payload_encode(x); an int is in range when it is below 2^32, that is when
\* its upper half is below 2^16
PayloadEncode(x) ==
    IF x.kind = "NoneType" THEN Encoded(PAYLOAD_NULL, <<0>>)
    ELSE IF x.kind = "int"
    THEN IF 0 <= x.v[1] /\ (x.v[1] \div 65536) < 65536
         THEN Encoded(PAYLOAD_U32, PackU32(x.v[1]))
         ELSE EncodeFailed
    ELSE IF x.kind = "str" THEN Encoded(PAYLOAD_STR, Utf8Encode(x.v) \o <<0>>)
    ELSE IF x.kind = "bin" THEN Encoded(PAYLOAD_BIN, x.v)
    ELSE Encoded(PAYLOAD_JSON, Utf8Encode(JsonDumps(x)) \o <<0>>)

\* payload_decode(dtype, x)
PayloadDecode(dtype, x) ==
    IF dtype = PAYLOAD_NULL THEN ToNull(x)
    ELSE IF dtype = PAYLOAD_U32 THEN ToU32(x)
    ELSE IF dtype = PAYLOAD_STR THEN ToStr(x)
    ELSE IF dtype = PAYLOAD_JSON THEN ToJson(x)
    ELSE IF dtype = PAYLOAD_BIN THEN ToBin(x)
    ELSE PyValue("KeyError", <<>>)

\* the codec at work on one value
CodecIdle == [stage |-> "idle", value |-> PyNone, dtype |-> PAYLOAD_NULL,
              bytes |-> <<>>, error |-> None, decoded |-> PyNone]

CInit == codec = CodecIdle

\* payload_encode(value) is called
CodecEncode ==
    /\ codec.stage = "value"
    /\ codec' = [codec EXCEPT !.stage = "encoded",
                              !.dtype = PayloadEncode(codec.value).dtype,
                              !.bytes = PayloadEncode(codec.value).bytes,
                              !.error = PayloadEncode(codec.value).error]
    /\ UNCHANGED nonCodec

\* payload_decode(dtype, bytes) is called with what payload_encode returned
CodecDecode ==
    /\ codec.stage = "encoded"
    /\ codec.error = None
    /\ codec' = [codec EXCEPT !.stage = "decoded",
                              !.decoded = PayloadDecode(codec.dtype, codec.bytes)]
    /\ UNCHANGED nonCodec

-----------------------------------------------------------------------------
(* Operations *)

TInit ==
    /\ ports = [i \in PortIds |-> None]
    /\ msgs = [i \in PortIds |-> <<>>]
    /\ last_tx_event = TX_DISCONNECTED
    /\ sendLog = <<>>
    /\ recvLog = <<>>
    /\ eventLog = <<>>
    /\ rxHist = <<>>
    /\ evHist = <<>>
    /\ regHist = <<>>
    /\ txHist = <<>>
    /\ wire = <<>>

\* Transport.register_port(port_id, port)
RegisterPort(port_id, port) ==
    /\ 0 <= port_id /\ port_id <= PORTS_MAX
    /\ ports' = [ports EXCEPT ![port_id] = port]
    /\ eventLog' = eventLog \o PortOnEvent(port_id, port, last_tx_event)
    /\ regHist' = Append(regHist, [port |-> port_id, handler |-> port])
    /\ UNCHANGED <<msgs, last_tx_event, sendLog, recvLog, rxHist, evHist, txHist, wire>>
    /\ UNCHANGED nonTransport

\* Transport.on_event(event)
TransportOnEvent(event) ==
    /\ last_tx_event' = LastTxEvent(last_tx_event, event)
    /\ eventLog' = eventLog \o EventFanout(0, ports, event)
    /\ evHist' = Append(evHist, event)
    /\ UNCHANGED <<ports, msgs, sendLog, recvLog, rxHist, regHist, txHist, wire>>
    /\ UNCHANGED nonTransport

\* Transport.on_recv(metadata, msg) with a fragment from the Data Link; the
\* payload is tagged with its arrival number
TransportOnRecv(port_id, port_data, seq) ==
    /\ OnRecv(MetadataOf(port_data, port_id, seq), <<Len(rxHist) + 1>>)
    /\ UNCHANGED <<ports, last_tx_event, sendLog, eventLog, evHist, regHist, txHist, wire>>
    /\ UNCHANGED nonTransport

\* Transport.send, lines 149-151: the exception raised before anything is sent
SendError(port_id) ==
    IF 0 <= port_id /\ port_id <= PORTS_MAX THEN None ELSE "ValueError"

\* Transport.send(port_id, port_data, msg); send_fn queues each fragment
TransportSendCore(port_id, port_data, msg) ==
    /\ IF SendError(port_id) = None
       THEN /\ sendLog' = sendLog \o SendFragments(port_id, port_data, msg)
            /\ wire' = wire \o SendFragments(port_id, port_data, msg)
       ELSE UNCHANGED <<sendLog, wire>>
    /\ txHist' = Append(txHist, [port |-> port_id, port_data |-> port_data, msg |-> msg,
                                 error |-> SendError(port_id)])
    /\ UNCHANGED <<ports, msgs, last_tx_event, recvLog, eventLog, rxHist, evHist, regHist>>

TransportSend(port_id, port_data, msg) ==
    /\ TransportSendCore(port_id, port_data, msg)
    /\ UNCHANGED nonTransport

\* the next queued fragment is fed to Transport.on_recv (test_segment, lines 103-104)
Loopback ==
    /\ wire # <<>>
    /\ OnRecv(Head(wire).metadata, Head(wire).payload)
    /\ wire' = Tail(wire)
    /\ UNCHANGED <<ports, last_tx_event, sendLog, eventLog, evHist, regHist, txHist>>
    /\ UNCHANGED nonTransport

-----------------------------------------------------------------------------
(* pyembc.stream.pubsub_port *)

\* pubsub_port.PayloadType
PORT_NULL == 0

PORT_CSTR == 1

PORT_U32 == 2

\* RETAIN = 1 << 4, looked for in port_data >> 8
RETAIN == 16

\* longest topic with its NUL, longest message
TOPIC_BYTES_MAX == 32

PORT_MSG_MAX == 256

\* ord(c) of the characters the topic names are made of
Ord(c) ==
    CASE c = "/" -> 47
      [] c = "0" -> 48
      [] c = "1" -> 49
      [] c = "a" -> 97
      [] c = "b" -> 98
      [] c = "c" -> 99
      [] c = "e" -> 101
      [] c = "h" -> 104
      [] c = "s" -> 115
      [] c = "t" -> 116
      [] c = "v" -> 118
      [] c = "x" -> 120

Chr(n) ==
    CASE n = 47 -> "/"
      [] n = 48 -> "0"
      [] n = 49 -> "1"
      [] n = 97 -> "a"
      [] n = 98 -> "b"
      [] n = 99 -> "c"
      [] n = 101 -> "e"
      [] n = 104 -> "h"
      [] n = 115 -> "s"
      [] n = 116 -> "t"
      [] n = 118 -> "v"
      [] n = 120 -> "x"
      [] OTHER -> "?"

\* the code points of a topic name
CodePoints(topic) == [i \in 1 .. Len(topic) |-> Ord(topic[i])]

\* the values PubSub holds as words, as Python values
PyOf(x) ==
    CASE x = None -> PyNone
      [] x = "0" -> PyInt(0)
      [] x = "1" -> PyInt(1)
      [] x = "42" -> PyInt(42)
      [] x = "8" -> PyInt(8)
      [] x = "256" -> PyInt(256)
      [] x = "65536" -> PyInt(65536)
      [] x = "2147483647" -> PyInt(2147483647)
      [] x = "-1" -> PyInt(-1)
      [] x = "''" -> PyStr(<<>>)
      [] x = "'a'" -> PyStr(<<97>>)
      [] x = "'hello'" -> PyStr(<<104, 233, 108, 108, 8364>>)
      [] x = "'a' * 251" -> PyStr([i \in 1 .. PORT_MSG_MAX - 5 |-> 97])
      [] x = "'a' * 252" -> PyStr([i \in 1 .. PORT_MSG_MAX - 4 |-> 97])

PortValues == {None, "0", "42", "65536", "2147483647", "-1", "''", "'a'", "'hello'"}

SEND == "PubSubPort.send"

\* the attributes PubSubPort.__init__ sets on the object
PortAttributes == {"_pubsub", "_transport", "_port_id"}

\* pubsub_port._payload_encode
PortPayloadEncode(x) ==
    IF x.kind = "NoneType" THEN Encoded(PORT_NULL, <<>>)
    ELSE IF x.kind = "str" THEN Encoded(PORT_CSTR, Utf8Encode(x.v) \o <<0>>)
    ELSE IF x.kind = "int" /\ 0 <= x.v[1] /\ (x.v[1] \div 65536) < 65536
    THEN Encoded(PORT_U32, PackU32(x.v[1]))
    ELSE EncodeFailed

PortSendFailed(e) == [error |-> e, port_data |-> 0, msg |-> <<>>]

\* the topic length, the value and the message size are not checked
PortSendUnchecked(args) ==
    IF Len(args) # 2 THEN PortSendFailed("TypeError")
    ELSE LET topic_bytes == Utf8Encode(CodePoints(args[1])) \o <<0>>
             x == PyOf(args[2])
             bytes == IF x.kind = "str" THEN Utf8Encode(x.v) \o <<0>>
                      ELSE IF x.kind = "int" THEN PackU32(x.v[1] % 65536)
                      ELSE <<>>
         IN  [error |-> None,
              port_data |-> 0,
              msg |-> <<(Len(topic_bytes) - 1) % 256>> \o topic_bytes
                      \o <<Len(bytes) % 256>> \o bytes]

\* PubSubPort.send called with the arguments a subscriber is called with: the
\* method takes (topic, value); what it hands to Transport.send, or the
\* exception it ends with
PortSend(args) ==
    IF Len(args) # 2 THEN PortSendFailed("TypeError")
    ELSE LET topic_bytes == Utf8Encode(CodePoints(args[1])) \o <<0>>
             topic_len == Len(topic_bytes)
             enc == PortPayloadEncode(PyOf(args[2]))
             sz == 1 + topic_len + 1 + Len(enc.bytes)
         IN  IF topic_len > TOPIC_BYTES_MAX THEN PortSendFailed("ValueError")
             ELSE IF enc.error # None THEN PortSendFailed("ValueError")
             ELSE IF sz > PORT_MSG_MAX THEN PortSendFailed("ValueError")
             ELSE [error |-> None,
                   port_data |-> (enc.dtype % 16) * 256,
                   msg |-> <<topic_len - 1>> \o topic_bytes \o <<Len(enc.bytes)>>
                           \o enc.bytes]

\* pubsub_port._to_cstr: x[:-1].tobytes is the bound method, which has no decode
ToCstr(x) == PyValue("AttributeError", <<>>)

\* pubsub_port._PAYLOAD_TYPE_FN[dtype](payload)
PortPayloadDecode(dtype, x) ==
    IF dtype = PORT_NULL THEN ToNull(x)
    ELSE IF dtype = PORT_CSTR THEN ToCstr(x)
    ELSE IF dtype = PORT_U32 THEN ToU32(x)
    ELSE PyValue("KeyError", <<>>)

IsException(x) == x.kind \in {"AttributeError", "KeyError", "ValueError"}

PortRecvDone(error, publish) == [error |-> error, publish |-> publish]

\* PubSubPort.on_recv(port_data, msg): the exception it ends with and the
\* publish calls it made on self.pubsub
PortOnRecv(port_data, msg) ==
    LET topic_len == (msg[1] % 32) + 1
        dtype == (port_data \div 256) % 16
        retain == ((port_data \div 256) \div RETAIN) % 2 # 0
        topic == Utf8Decode(SubSeq(msg, 2, topic_len))
        payload_len == msg[2 + topic_len]
        payload == SubSeq(msg, 3 + topic_len, Len(msg))
        x == PortPayloadDecode(dtype, payload)
    IN  IF ~topic.ok THEN PortRecvDone("UnicodeDecodeError", <<>>)
        ELSE IF Len(msg) < 2 + topic_len THEN PortRecvDone("IndexError", <<>>)
        ELSE IF Len(payload) # payload_len THEN PortRecvDone(None, <<>>)
        ELSE IF IsException(x) THEN PortRecvDone(x.kind, <<>>)
        ELSE IF "pubsub" \notin PortAttributes THEN PortRecvDone("AttributeError", <<>>)
        ELSE PortRecvDone(None, <<[topic |-> topic.s, value |-> x,
                                   retain |-> retain, src_cbk |-> SEND]>>)

\* the reserved topics of the port and their metadata (default, retain)
PortTopicS == <<"s">>

PortTopicC == <<"c">>

TopicC1Tx == <<"h", "/", "c", "1", "/", "t", "x">>

TopicC1Ev == <<"h", "/", "c", "1", "/", "e", "v">>

TX_META == <<Meta(TRUE, "0", "1")>>

EV_META == <<Meta(TRUE, "256", None)>>

\* pubsub.subscribe(topic, cbk, skip_retained) on the tree tp
SubscribeIn(tp, topic, cbk, skip_retained) ==
    LET f == TopicFind(tp, topic, TRUE)
    IN  TopicSubscribe(f.topics, f.t, cbk, skip_retained)

\* pubsub.create(topic, meta, cbk) on the tree tp
CreateIn(tp, topic, meta, cbk) ==
    IF CreateExists(TopicFind(tp, topic, FALSE))
    THEN [topics |-> tp, calls |-> <<>>, result |-> Raised("ValueError")]
    ELSE CreateNew(tp, topic, meta, cbk)

\* PubSubPort.__init__, lines 96-97: subscribe(topic, self.send, skip_retained=True)
PortSubscribedBy(a, r) ==
    [topics |-> r.topics, calls |-> a.calls \o r.calls, error |-> a.error]

PortSubscribed(topic, a) == PortSubscribedBy(a, SubscribeIn(a.topics, topic, SEND, PyTrue))

\* PubSubPort.__init__, lines 98-99: create(topic, meta, self.send), not reached
\* after an exception
PortCreatedBy(a, c) ==
    [topics |-> c.topics, calls |-> a.calls \o c.calls, error |-> c.result.error]

PortCreated(topic, meta, a) ==
    IF a.error # None THEN a
    ELSE PortCreatedBy(a, CreateIn(a.topics, topic, meta, SEND))

\* PubSubPort.__init__, lines 96-99: the tree it leaves, the calls made to
\* self.send on the way and the exception that ended it, if any
PortConstruct(tp) ==
    PortCreated(TopicC1Ev, EV_META,
      PortCreated(TopicC1Tx, TX_META,
        PortSubscribed(PortTopicC,
          PortSubscribed(PortTopicS, [topics |-> tp, calls |-> <<>>, error |-> None]))))

\* the port of the PubSubPort and its handler entry in the Transport
PUBSUB_PORT_ID == 2

PUBSUB_PORT == "PubSubPort"

\* an exchange over the port: the local publish or replay that called send,
\* what send made of it, what on_recv made of the message
PortExchange(n, stage, how, topic, value, retain, send, recv) ==
    [n |-> n, stage |-> stage, how |-> how, topic |-> topic, value |-> value,
     retain |-> retain, send |-> send, recv |-> recv]

PortNoRecv == PortRecvDone(None, <<>>)

PortNone == PortExchange(0, "idle", None, ROOT, None, None, PortSendFailed(None), PortNoRecv)

XInit == pport = PortNone

\* the state after Transport(send_fn), PubSub() and PubSubPort(pubsub,
\* transport, 2): create('h/c1/tx') replays the default to self.send
PortBuilt == PortConstruct([n \in {ROOT} |-> NewTopic(<<>>)])

PortFirstSend == PortSend(PortBuilt.calls[1].args)

PortInit ==
    /\ ports = [i \in PortIds |-> IF i = PUBSUB_PORT_ID THEN PUBSUB_PORT ELSE None]
    /\ msgs = [i \in PortIds |-> <<>>]
    /\ last_tx_event = TX_DISCONNECTED
    /\ sendLog = SendFragments(PUBSUB_PORT_ID, PortFirstSend.port_data, PortFirstSend.msg)
    /\ wire = sendLog
    /\ recvLog = <<>>
    /\ eventLog = PortOnEvent(PUBSUB_PORT_ID, PUBSUB_PORT, TX_DISCONNECTED)
    /\ rxHist = <<>>
    /\ evHist = <<>>
    /\ regHist = <<[port |-> PUBSUB_PORT_ID, handler |-> PUBSUB_PORT]>>
    /\ txHist = <<[port |-> PUBSUB_PORT_ID, port_data |-> PortFirstSend.port_data,
                   msg |-> PortFirstSend.msg, error |-> None]>>
    /\ topics = PortBuilt.topics
    /\ calls = <<>>
    /\ lastOp = Call("create", TopicC1Ev, None, None, SEND, None, EV_META, Returned(None))
    /\ cycle = CycleReset
    /\ pport = PortExchange(0, "sent", "replay", TopicC1Tx, "0", None, PortFirstSend,
                            PortNoRecv)

\* the calls up to the first one made to PubSubPort.send
RECURSIVE UpToSend(_)
UpToSend(cs) ==
    IF cs = <<>> THEN <<>>
    ELSE IF Head(cs).cbk = SEND THEN <<Head(cs)>>
    ELSE <<Head(cs)>> \o UpToSend(Tail(cs))

\* Transport.send called by the port, or not called when send raised before
PortTransportSend(res) ==
    IF res.error = None
    THEN TransportSendCore(PUBSUB_PORT_ID, res.port_data, res.msg)
    ELSE UNCHANGED tvars

\* pubsub.publish(topic, value, retain) on the local side: the subscribers on
\* the path are called with (topic, value, retain), PubSubPort.send among them
PortPublish(topic, value, retain) ==
    LET f == TopicFind(topics, topic, TRUE)
        r == TopicPublish(f.topics, f.t, value, retain, None)
        forwarded == SelectSeq(r.calls, LAMBDA c : c.cbk = SEND)
        res == IF forwarded = <<>> THEN PortSendFailed(None) ELSE PortSend(forwarded[1].args)
    IN  /\ topics' = r.topics
        /\ calls' = UpToSend(r.calls)
        /\ lastOp' = Call("publish", topic, value, retain, None, None, <<>>,
                          IF res.error = None THEN Returned(None) ELSE Raised(res.error))
        /\ cycle' = CycleReset
        /\ pport' = PortExchange(pport.n + 1, IF forwarded = <<>> THEN "unsent" ELSE "sent",
                                 "publish", topic, value, retain, res, PortNoRecv)
        /\ IF forwarded = <<>> THEN UNCHANGED tvars ELSE PortTransportSend(res)
        /\ UNCHANGED <<lvars, cvars, svars, kvars>>

\* PubSubPort.send(topic, value), called the way a replay calls a subscriber
PortReplay(topic, value) ==
    LET res == PortSend(<<topic, value>>)
    IN  /\ pport' = PortExchange(pport.n + 1, "sent", "replay", topic, value, None, res,
                                 PortNoRecv)
        /\ PortTransportSend(res)
        /\ UNCHANGED <<lvars, pvars, cvars, svars, kvars>>

\* the word PubSub holds for a Python value, the name for its code points
WordOf(v) == CHOOSE x \in PortValues \cup {"0", "1", "256"} : PyOf(x) = v

NameOf(cps) == [i \in 1 .. Len(cps) |-> Chr(cps[i])]

\* self.pubsub.publish(topic, x, retain=retain, src_cbk=self.send)
PortRecvPublish(p) ==
    LET f == TopicFind(topics, NameOf(p.topic), TRUE)
        r == TopicPublish(f.topics, f.t, WordOf(p.value),
                          IF p.retain THEN PyTrue ELSE PyFalse, p.src_cbk)
    IN  /\ topics' = r.topics
        /\ calls' = r.calls
        /\ lastOp' = Call("publish", NameOf(p.topic), WordOf(p.value),
                          IF p.retain THEN PyTrue ELSE PyFalse, p.src_cbk, None, <<>>,
                          Returned(None))
        /\ cycle' = CycleReset

\* the next fragment is fed to Transport.on_recv of the peer; a message that is
\* complete goes to PubSubPort.on_recv
PortLoopback ==
    LET d == PortDeliver(PortIdOf(Head(wire).metadata), ports[PortIdOf(Head(wire).metadata)],
                         msgs[PortIdOf(Head(wire).metadata)], Head(wire).metadata,
                         Head(wire).payload)
        recv == PortOnRecv(d[1].port_data, d[1].msg)
    IN  /\ wire # <<>>
        /\ OnRecv(Head(wire).metadata, Head(wire).payload)
        /\ wire' = Tail(wire)
        /\ UNCHANGED <<ports, last_tx_event, sendLog, eventLog, evHist, regHist, txHist>>
        /\ IF d = <<>> THEN UNCHANGED <<pvars, pport>>
           ELSE /\ pport' = [pport EXCEPT !.stage = "received", !.recv = recv]
                /\ IF recv.publish = <<>> THEN UNCHANGED pvars
                   ELSE PortRecvPublish(recv.publish[1])
        /\ UNCHANGED <<lvars, cvars, svars, kvars>>

-----------------------------------------------------------------------------
(* pyembc.stream.port0_server *)

OP_STATUS == 1

OP_ECHO == 2

OP_TIMESYNC == 3

OP_META == 4

OP_RAW == 5

ST_INIT == 0

ST_META == 1

ST_DISCONNECTED == 2

ST_CONNECTED == 3

\* pyembc.stream.data_link.PORTS_COUNT
PORTS_COUNT == PORTS_MAX + 1

\* Port0Server._meta_outstanding
META_OUTSTANDING == 8

\* the entry of the Port0Server object in the Transport
PORT0 == "Port0Server"

\* the rsp bit is left clear
PackRspClear(op, cmd_meta) == (op % 8) + (cmd_meta % 256) * 256

\* _pack_req, _pack_rsp, _unpack
PackReq(op, cmd_meta) == (op % 8) + ((cmd_meta % 256) * 256)

PackRsp(op, cmd_meta) == (op % 8) + 8 + ((cmd_meta % 256) * 256)

UnpackOp(port_data) == port_data % 8

UnpackRsp(port_data) == (port_data \div 8) % 2 # 0

UnpackCmdMeta(port_data) == (port_data \div 256) % 256

\* the topics of port 0 and their metadata (default, retain)
TopicConnTx ==
    <<"h", "/", "p", "o", "r", "t", "/", "0", "/", "c", "o", "n", "n", "/", "t", "x">>

TopicConnEv ==
    <<"h", "/", "p", "o", "r", "t", "/", "0", "/", "c", "o", "n", "n", "/", "e", "v">>

TopicEchoEnable ==
    <<"h", "/", "p", "o", "r", "t", "/", "0", "/", "e", "c", "h", "o", "/",
      "e", "n", "a", "b", "l", "e">>

TopicEchoOutstanding ==
    <<"h", "/", "p", "o", "r", "t", "/", "0", "/", "e", "c", "h", "o", "/",
      "o", "u", "t", "s", "t", "a", "n", "d", "i", "n", "g">>

TopicEchoLength ==
    <<"h", "/", "p", "o", "r", "t", "/", "0", "/", "e", "c", "h", "o", "/",
      "l", "e", "n", "g", "t", "h">>

TopicMeta == <<"h", "/", "p", "o", "r", "t", "/", "0", "/", "m", "e", "t", "a">>

CONN_TX_META == <<Meta(TRUE, "0", "1")>>

CONN_EV_META == <<Meta(TRUE, "256", None)>>

ECHO_ENABLE_META == <<Meta(TRUE, "0", "1")>>

ECHO_OUTSTANDING_META == <<Meta(TRUE, "8", "1")>>

ECHO_LENGTH_META == <<Meta(TRUE, "256", "1")>>

ON_ECHO_ENABLE == "Port0Server._on_echo_enable"

ON_ECHO_OUTSTANDING == "Port0Server._on_echo_outstanding"

ON_ECHO_LENGTH == "Port0Server._on_echo_length"

\* the list self._meta, published by reference
SELF_META == "self._meta"

\* Port0Server.__init__, lines 96-107: the fields of the object
Port0New ==
    [state |-> ST_INIT,
     echo_enable |-> 0,
     echo_outstanding |-> 8,
     echo_length |-> 256,
     echo_tx_frame_id |-> 0,
     echo_rx_frame_id |-> 0,
     meta |-> [i \in 0 .. PORTS_COUNT - 1 |-> PyNone],
     meta_outstanding |-> META_OUTSTANDING,
     meta_tx_port_id |-> 0,
     meta_rx_port_id |-> 0]

\* What a handler of Port0Server did: the fields it left, the messages it
\* handed to self._send, the values it handed to self._publish, whether it
\* called _meta_done, the exception that ended it
Ran(s, sends, pubs, done, error) ==
    [s |-> s, sends |-> sends, pubs |-> pubs, done |-> done, error |-> error]

Message(port_data, msg) == [port |-> 0, port_data |-> port_data, msg |-> msg]

Pub(topic, value, retain) == [topic |-> topic, value |-> value, retain |-> retain]

Min(a, b) == IF a < b THEN a ELSE b

Zeros(n) == [i \in 1 .. n |-> 0]

\* the eight bytes of a uint64 below 2^31, least significant first
PackU64(n) == PackU32(n) \o Zeros(4)

\* msg[:8].view(dtype=np.uint64)[0], for a value below 2^31
UnpackU64(msg) == UnpackU32(SubSeq(msg, 1, 4))

\* Port0Server._meta_scan
RECURSIVE MetaScanLoop(_, _)
MetaScanLoop(s, sends) ==
    IF /\ s.meta_tx_port_id < PORTS_COUNT
       /\ (s.meta_tx_port_id - s.meta_rx_port_id) < s.meta_outstanding
    THEN MetaScanLoop([s EXCEPT !.meta_tx_port_id = @ + 1],
                      Append(sends, Message(PackReq(OP_META, s.meta_tx_port_id), <<0>>)))
    ELSE Ran(s, sends, <<>>, FALSE, None)

MetaScan(s) == MetaScanLoop(s, <<>>)

\* Port0Server._echo_send; a length below 8 has no room for the frame id
RECURSIVE EchoSendLoop(_, _)
EchoSendLoop(s, sends) ==
    IF /\ s.state = ST_CONNECTED
       /\ s.echo_enable # 0
       /\ (s.echo_tx_frame_id - s.echo_rx_frame_id) < s.echo_outstanding
    THEN IF s.echo_length < 8 THEN Ran(s, sends, <<>>, FALSE, "ValueError")
         ELSE EchoSendLoop(
                [s EXCEPT !.echo_tx_frame_id = @ + 1],
                Append(sends, Message(PackReq(OP_ECHO, 0),
                                      PackU64(s.echo_tx_frame_id) \o Zeros(s.echo_length - 8))))
    ELSE Ran(s, sends, <<>>, FALSE, None)

EchoSend(s) == EchoSendLoop(s, <<>>)

\* Port0Server._on_echo_enable(topic, value)
OnEchoEnable(s, value) ==
    IF value # 0 THEN EchoSend([s EXCEPT !.echo_enable = value])
    ELSE Ran([s EXCEPT !.echo_enable = value, !.echo_rx_frame_id = 0,
                       !.echo_tx_frame_id = 0], <<>>, <<>>, FALSE, None)

\* Port0Server._on_echo_outstanding(topic, value)
OnEchoOutstanding(s, value) == EchoSend([s EXCEPT !.echo_outstanding = value])

\* Port0Server._on_echo_length(topic, value)
OnEchoLength(s, value) == EchoSend([s EXCEPT !.echo_length = value])

\* Port0Server.on_event, lines 149-152
EchoReset(s, event) ==
    IF event # TX_CONNECTED
    THEN [s EXCEPT !.echo_tx_frame_id = 0, !.echo_rx_frame_id = 0]
    ELSE s

\* Port0Server.on_event, lines 163-169: the state after TX_CONNECTED
Connected(s) ==
    IF s.state = ST_INIT THEN MetaScan([s EXCEPT !.state = ST_META])
    ELSE EchoSend([s EXCEPT !.state = ST_CONNECTED])

\* Port0Server.on_event, lines 156-160: the state after TX_DISCONNECTED
Disconnected(s) ==
    IF s.state = ST_CONNECTED THEN [s EXCEPT !.state = ST_DISCONNECTED]
    ELSE IF s.state = ST_META THEN [s EXCEPT !.meta_tx_port_id = 0, !.meta_rx_port_id = 0]
    ELSE s

\* Port0Server.on_event
Port0OnEvent(s, event) ==
    LET ev == Pub(TopicConnEv, event, None)
        s1 == EchoReset(s, event)
    IN  IF event = TX_DISCONNECTED
        THEN Ran(Disconnected(s1), <<>>, <<ev, Pub(TopicConnTx, "0", None)>>, FALSE, None)
        ELSE IF event = TX_CONNECTED
        THEN [Connected(s1) EXCEPT !.pubs = <<ev, Pub(TopicConnTx, "1", None)>>]
        ELSE Ran(s1, <<>>, <<ev>>, FALSE, None)

\* Port0Server._recv_echo
RecvEcho(s, rsp, cmd_meta, msg) ==
    IF rsp
    THEN IF Len(msg) # s.echo_length \/ Len(msg) < 8 THEN Ran(s, <<>>, <<>>, FALSE, None)
         ELSE EchoSend([s EXCEPT !.echo_rx_frame_id = UnpackU64(msg) + 1])
    ELSE Ran(s, <<Message(PackRsp(OP_ECHO, cmd_meta), msg)>>, <<>>, FALSE, None)

\* Port0Server._recv_timesync; t1 = t2 = now(), t3 = 0
RecvTimesync(s, rsp, cmd_meta, msg, now) ==
    IF rsp \/ Len(msg) < 8 THEN Ran(s, <<>>, <<>>, FALSE, None)
    ELSE Ran(s, <<Message(PackRsp(OP_TIMESYNC, cmd_meta),
                          SubSeq(msg, 1, 8) \o PackU64(now) \o PackU64(now) \o Zeros(8))>>,
             <<>>, FALSE, None)

\* Port0Server._recv_meta; _meta_done is left to the caller
RecvMeta(s, rsp, cmd_meta, msg) ==
    IF ~rsp THEN Ran(s, <<>>, <<>>, FALSE, None)
    ELSE IF cmd_meta >= PORTS_COUNT THEN Ran(s, <<>>, <<>>, FALSE, "IndexError")
    ELSE LET s1 == [s EXCEPT !.meta[cmd_meta] = ToJson(msg),
                             !.meta_rx_port_id = Min(cmd_meta + 1, s.meta_tx_port_id)]
         IN  IF s1.meta_rx_port_id >= PORTS_COUNT
             THEN Ran(IF s1.state = ST_META THEN [s1 EXCEPT !.state = ST_CONNECTED] ELSE s1,
                      <<>>, <<>>, TRUE, None)
             ELSE MetaScan(s1)

\* Port0Server.on_recv
Port0OnRecv(s, port_data, msg, now) ==
    LET op == UnpackOp(port_data)
        rsp == UnpackRsp(port_data)
        cmd_meta == UnpackCmdMeta(port_data)
    IN  IF op = OP_ECHO THEN RecvEcho(s, rsp, cmd_meta, msg)
        ELSE IF op = OP_TIMESYNC THEN RecvTimesync(s, rsp, cmd_meta, msg, now)
        ELSE IF op = OP_META THEN RecvMeta(s, rsp, cmd_meta, msg)
        ELSE Ran(s, <<>>, <<>>, FALSE, None)

\* the code points of 'type' and 'pubsub'
TYPE == <<116, 121, 112, 101>>

PUBSUB == <<112, 117, 98, 115, 117, 98>>

\* pubsub.publish(topic, value, retain) for each entry, in order
RECURSIVE PublishAll(_, _)
PublishAll(tp, pubs) ==
    IF pubs = <<>> THEN [topics |-> tp, calls |-> <<>>]
    ELSE LET f == TopicFind(tp, Head(pubs).topic, TRUE)
             r == TopicPublish(f.topics, f.t, Head(pubs).value, Head(pubs).retain, None)
             rest == PublishAll(r.topics, Tail(pubs))
         IN  [topics |-> rest.topics, calls |-> r.calls \o rest.calls]

\* the messages PubSubPort.send hands to Transport.send for the calls made to it
RECURSIVE PortSends(_, _)
PortSends(port_id, cs) ==
    IF cs = <<>> THEN <<>>
    ELSE IF Head(cs).cbk = SEND /\ PortSend(Head(cs).args).error = None
    THEN <<[port |-> port_id, port_data |-> PortSend(Head(cs).args).port_data,
            msg |-> PortSend(Head(cs).args).msg]>> \o PortSends(port_id, Tail(cs))
    ELSE PortSends(port_id, Tail(cs))

MetaDoneResult(tp, sends, regs, error) ==
    [topics |-> tp, sends |-> sends, regs |-> regs, error |-> error]

\* Port0Server._meta_done, line 264: the PubSubPort `c` was made for port_id;
\* it registered itself when it was made (pubsub_port.py, line 95)
MetaMade(acc, port_id, c) ==
    MetaDoneResult(c.topics, acc.sends \o PortSends(port_id, c.calls),
                   Append(acc.regs, [port |-> port_id, handler |-> PUBSUB_PORT]), c.error)

\* Port0Server._meta_done, lines 259-264: a PubSubPort is made and registered
\* for every port above 0 whose metadata has the type 'pubsub'
RECURSIVE MetaDoneLoop(_, _, _)
MetaRegistered(s, port_id, made) ==
    IF made.error # None THEN made
    ELSE MetaDoneLoop(s, port_id + 1,
                      [made EXCEPT !.regs =
                         Append(@, [port |-> port_id, handler |-> PUBSUB_PORT])])

MetaDoneLoop(s, port_id, acc) ==
    IF port_id >= PORTS_COUNT THEN acc
    ELSE IF s.meta[port_id] = PyNone THEN MetaDoneLoop(s, port_id + 1, acc)
    ELSE IF s.meta[port_id].kind # "strdict" THEN [acc EXCEPT !.error = "TypeError"]
    ELSE IF StrDictKey(s.meta[port_id]) # TYPE \/ StrDictValue(s.meta[port_id]) # PUBSUB
    THEN [acc EXCEPT !.error = "KeyError"]
    ELSE MetaRegistered(s, port_id, MetaMade(acc, port_id, PortConstruct(acc.topics)))

\* Port0Server._meta_done, line 265
MetaPublished(r) ==
    IF r.error # None THEN r
    ELSE [r EXCEPT !.topics =
            PublishAll(r.topics, <<Pub(TopicMeta, SELF_META, PyTrue)>>).topics]

\* Port0Server._meta_done
MetaDone(s, tp) == MetaPublished(MetaDoneLoop(s, 1, MetaDoneResult(tp, <<>>, <<>>, None)))

\* pubsub.meta(topic, meta) on the tree tp
MetaIn(tp, topic, meta) ==
    LET f == TopicFind(tp, topic, TRUE)
    IN  [f.topics EXCEPT ![f.t].meta = meta]

\* int(value) of a value PubSub holds
IntOf(x) == PyOf(x).v[1]

\* Port0Server.__init__, lines 117-122: register_port(0, self) calls
\* on_event(TX_DISCONNECTED); each create replays the default to its handler
Port0Registered == Port0OnEvent(Port0New, TX_DISCONNECTED)

Port0Topics ==
    LET tp1 == PublishAll([n \in {ROOT} |-> NewTopic(<<>>)], Port0Registered.pubs).topics
        tp2 == MetaIn(tp1, TopicConnTx, CONN_TX_META)
        tp3 == MetaIn(tp2, TopicConnEv, CONN_EV_META)
        c1 == CreateIn(tp3, TopicEchoEnable, ECHO_ENABLE_META, ON_ECHO_ENABLE)
        c2 == CreateIn(c1.topics, TopicEchoOutstanding, ECHO_OUTSTANDING_META,
                       ON_ECHO_OUTSTANDING)
        c3 == CreateIn(c2.topics, TopicEchoLength, ECHO_LENGTH_META, ON_ECHO_LENGTH)
    IN  [topics |-> c3.topics, calls |-> c1.calls \o c2.calls \o c3.calls]

\* the handler a replay call goes to
Port0Callback(s, call) ==
    IF call.cbk = ON_ECHO_ENABLE THEN OnEchoEnable(s, IntOf(call.args[2])).s
    ELSE IF call.cbk = ON_ECHO_OUTSTANDING THEN OnEchoOutstanding(s, IntOf(call.args[2])).s
    ELSE IF call.cbk = ON_ECHO_LENGTH THEN OnEchoLength(s, IntOf(call.args[2])).s
    ELSE s

RECURSIVE Port0Callbacks(_, _)
Port0Callbacks(s, cs) ==
    IF cs = <<>> THEN s ELSE Port0Callbacks(Port0Callback(s, Head(cs)), Tail(cs))

\* Port0Server is not constructed
SInit ==
    /\ port0 = Port0New
    /\ peerTaken = 0

\* the state after Transport(send_fn), PubSub(), Port0Server(pubsub, transport)
Port0Init ==
    /\ ports = [i \in PortIds |-> IF i = 0 THEN PORT0 ELSE None]
    /\ msgs = [i \in PortIds |-> <<>>]
    /\ last_tx_event = TX_DISCONNECTED
    /\ sendLog = <<>>
    /\ wire = <<>>
    /\ recvLog = <<>>
    /\ eventLog = PortOnEvent(0, PORT0, TX_DISCONNECTED)
    /\ rxHist = <<>>
    /\ evHist = <<>>
    /\ regHist = <<[port |-> 0, handler |-> PORT0]>>
    /\ txHist = <<>>
    /\ topics = Port0Topics.topics
    /\ calls = <<ReplayCall(ON_ECHO_LENGTH, TopicEchoLength, "256")>>
    /\ lastOp = Call("create", TopicEchoLength, None, None, ON_ECHO_LENGTH, None,
                     ECHO_LENGTH_META, Returned(None))
    /\ cycle = CycleReset
    /\ port0 = Port0Callbacks(Port0Registered.s, Port0Topics.calls)
    /\ peerTaken = 0

\* the fragments and the send records of the messages handed to Transport.send
RECURSIVE FragmentsOf(_)
FragmentsOf(sends) ==
    IF sends = <<>> THEN <<>>
    ELSE SendFragments(Head(sends).port, Head(sends).port_data, Head(sends).msg)
         \o FragmentsOf(Tail(sends))

SendRecords(sends) ==
    [i \in 1 .. Len(sends) |->
        [port |-> sends[i].port, port_data |-> sends[i].port_data, msg |-> sends[i].msg,
         error |-> SendError(sends[i].port)]]

\* Transport.register_port for each entry, in order
RECURSIVE RegisterAll(_, _)
RegisterAll(pt, regs) ==
    IF regs = <<>> THEN pt
    ELSE RegisterAll([pt EXCEPT ![Head(regs).port] = Head(regs).handler], Tail(regs))

RECURSIVE RegisterEvents(_, _)
RegisterEvents(regs, event) ==
    IF regs = <<>> THEN <<>>
    ELSE PortOnEvent(Head(regs).port, Head(regs).handler, event)
         \o RegisterEvents(Tail(regs), event)

\* The effects of a handler of Port0Server on the Transport and on the PubSub:
\* its publishes, _meta_done when it was called, its sends.  `fanout` are the
\* on_event calls the Transport made itself, `event` is its last TX event and
\* `link` are the fragments in flight when the handler was called.
Port0Effects(e, fanout, event, link) ==
    \E tp1 \in {PublishAll(topics, e.pubs)} :
    \E md \in {IF e.done /\ e.error = None THEN MetaDone(e.s, tp1.topics)
                ELSE MetaDoneResult(tp1.topics, <<>>, <<>>, None)} :
    \E sends \in {e.sends \o md.sends} :
        /\ port0' = e.s
        /\ topics' = md.topics
        /\ calls' = tp1.calls
        /\ lastOp' = IF e.done /\ e.error = None
                     THEN IF md.error = None
                          THEN Call("publish", TopicMeta, SELF_META, PyTrue, None, None, <<>>,
                                    Returned(None))
                          ELSE Call("create", TopicC1Tx, None, None, SEND, None, TX_META,
                                    Raised(md.error))
                     ELSE IF e.pubs # <<>>
                     THEN Call("publish", e.pubs[Len(e.pubs)].topic, e.pubs[Len(e.pubs)].value,
                               e.pubs[Len(e.pubs)].retain, None, None, <<>>, Returned(None))
                     ELSE lastOp
        /\ cycle' = IF e.pubs # <<>> \/ e.done THEN CycleReset ELSE cycle
        /\ sendLog' = sendLog \o FragmentsOf(sends)
        /\ wire' = link \o FragmentsOf(sends)
        /\ txHist' = txHist \o SendRecords(sends)
        /\ ports' = RegisterAll(ports, md.regs)
        /\ regHist' = regHist \o md.regs
        /\ eventLog' = eventLog \o fanout \o RegisterEvents(md.regs, event)

\* Transport.on_event(event) with Port0Server registered on port 0; `link` are
\* the fragments in flight that the event leaves on the link
Port0EventOn(event, link) ==
    /\ \E e \in {Port0OnEvent(port0, event)} :
          Port0Effects(e, EventFanout(0, ports, event), LastTxEvent(last_tx_event, event),
                       link)
    /\ last_tx_event' = LastTxEvent(last_tx_event, event)
    /\ evHist' = Append(evHist, event)
    /\ UNCHANGED <<msgs, recvLog, rxHist, peerTaken>>
    /\ UNCHANGED <<lvars, cvars, xvars, kvars>>

Port0Event(event) == Port0EventOn(event, wire)

\* the connection goes down and the messages in flight are lost with it
Port0LinkDown == Port0EventOn(TX_DISCONNECTED, <<>>)

\* the handlers of the echo topics, called with (topic, value)
Port0EchoEnable(value) ==
    /\ \E e \in {OnEchoEnable(port0, value)} : Port0Effects(e, <<>>, last_tx_event, wire)
    /\ UNCHANGED <<msgs, last_tx_event, recvLog, rxHist, evHist, peerTaken>>
    /\ UNCHANGED <<lvars, cvars, xvars, kvars>>

Port0EchoOutstanding(value) ==
    /\ \E e \in {OnEchoOutstanding(port0, value)} : Port0Effects(e, <<>>, last_tx_event, wire)
    /\ UNCHANGED <<msgs, last_tx_event, recvLog, rxHist, evHist, peerTaken>>
    /\ UNCHANGED <<lvars, cvars, xvars, kvars>>

Port0EchoLength(value) ==
    /\ \E e \in {OnEchoLength(port0, value)} : Port0Effects(e, <<>>, last_tx_event, wire)
    /\ UNCHANGED <<msgs, last_tx_event, recvLog, rxHist, evHist, peerTaken>>
    /\ UNCHANGED <<lvars, cvars, xvars, kvars>>

\* the clock read by _recv_timesync
NOW == 1000

\* A fragment of the peer is fed to Transport.on_recv; a message that is
\* complete goes to Port0Server.on_recv.  `link` are the fragments in flight.
Port0Recv(f, link) ==
    LET d == PortDeliver(PortIdOf(f.metadata), ports[PortIdOf(f.metadata)],
                         msgs[PortIdOf(f.metadata)], f.metadata, f.payload)
    IN  /\ OnRecv(f.metadata, f.payload)
        /\ IF d # <<>> /\ d[1].handler = PORT0
           THEN \E e \in {Port0OnRecv(port0, d[1].port_data, d[1].msg, NOW)} :
                    Port0Effects(e, <<>>, last_tx_event, link)
           ELSE /\ wire' = link
                /\ UNCHANGED <<port0, pvars, sendLog, txHist, ports, regHist, eventLog>>
        /\ UNCHANGED <<last_tx_event, evHist>>
        /\ UNCHANGED <<lvars, cvars, xvars, kvars>>

\* the metadata the peer reports: port 1 is its PubSub port, the other ports
\* have none
PeerPubSubPorts == {1}

PeerMeta(port_id) ==
    IF port_id \in PeerPubSubPorts
    THEN Utf8Encode(JsonDumps(StrDict(TYPE, PUBSUB))) \o <<0>>
    ELSE <<0>>

Single(port_data, msg) ==
    [metadata |-> MetadataOf(port_data, 0, SEQ_SINGLE), payload |-> msg]

\* what the peer answers to a message: the metadata of the port to a META
\* request, the same payload to an ECHO request, nothing to anything else
PeerReply(f) ==
    LET port_data == PortDataOf(f.metadata)
    IN  IF PortIdOf(f.metadata) # 0 \/ UnpackRsp(port_data) THEN <<>>
        ELSE IF UnpackOp(port_data) = OP_META
        THEN <<Single(PackRsp(OP_META, UnpackCmdMeta(port_data)),
                      PeerMeta(UnpackCmdMeta(port_data)))>>
        ELSE IF UnpackOp(port_data) = OP_ECHO
        THEN <<Single(PackRsp(OP_ECHO, UnpackCmdMeta(port_data)), f.payload)>>
        ELSE <<>>

\* the peer takes the oldest message off the link; its answer, when it has
\* one, is received
PeerAnswer ==
    /\ wire # <<>>
    /\ peerTaken' = peerTaken + 1
    /\ IF PeerReply(Head(wire)) = <<>>
       THEN /\ wire' = Tail(wire)
            /\ UNCHANGED <<ports, msgs, last_tx_event, sendLog, recvLog, eventLog, rxHist,
                           evHist, regHist, txHist>>
            /\ UNCHANGED <<port0, lvars, pvars, cvars, xvars, kvars>>
       ELSE Port0Recv(PeerReply(Head(wire))[1], Tail(wire))

\* the peer sends a message of its own on port 0
PeerSend(port_data, msg) ==
    /\ Port0Recv(Single(port_data, msg), wire)
    /\ UNCHANGED peerTaken

\* the peer takes a message off the link whenever there is one: PeerAnswer
\* seen on the peer's counter alone
PeerTakes ==
    /\ wire # <<>>
    /\ peerTaken' = peerTaken + 1

-----------------------------------------------------------------------------
(* pyembc.stream.stream_tester *)

Sides == {"a", "b"}

\* StreamInterface.__init__
StreamInterfaceNew == [recv_cbk |-> None, send_done_cbk |-> None, send_queue |-> <<>>]

\* StreamTester.__init__: the two interfaces and the five rates; recv and done
\* are the buffers the callbacks of each side were called with, sends and runs
\* count the calls of send and of process
TesterNew ==
    [a |-> StreamInterfaceNew, b |-> StreamInterfaceNew,
     buffer_drop_rate |-> 0, buffer_insert_rate |-> 0, byte_drop_rate |-> 0,
     byte_insert_rate |-> 0, bit_error_rate |-> 0,
     recv |-> [s \in Sides |-> <<>>], done |-> [s \in Sides |-> <<>>],
     sends |-> 0, runs |-> 0]

KInit == tester = TesterNew

\* self.random.random() < rate: random() lies in [0, 1), so it is never below a
\* rate of 0 and always below a rate of 1, the two rates the tests set
Drawn(rate) == rate >= 1

\* StreamInterface.open
StreamOpen(t, side, recv_cbk, send_done_cbk) ==
    [t EXCEPT ![side].recv_cbk = recv_cbk, ![side].send_done_cbk = send_done_cbk]

\* StreamInterface.send
StreamSend(t, side, buffer) == [t EXCEPT ![side].send_queue = Append(@, buffer)]

\* StreamInterface.on_send_done
StreamOnSendDone(t, side, buffer) ==
    IF t[side].send_done_cbk # None THEN [t EXCEPT !.done[side] = Append(@, buffer)]
    ELSE t

\* StreamInterface.on_recv
StreamOnRecv(t, side, buffer) ==
    IF t[side].recv_cbk # None THEN [t EXCEPT !.recv[side] = Append(@, buffer)]
    ELSE t

\* np.delete(buffer, drop < self.byte_drop_rate)
ByteDrop(t, buffer) == IF Drawn(t.byte_drop_rate) THEN <<>> ELSE buffer

\* np.insert(buffer, insert_idx, insert_data): a byte of the generator before
\* each byte of the buffer
ByteInsert(t, buffer, byte) ==
    IF Drawn(t.byte_insert_rate)
    THEN [i \in 1 .. 2 * Len(buffer) |-> IF i % 2 = 1 THEN byte ELSE buffer[i \div 2]]
    ELSE buffer

\* buffer[byte] ^ bit for every bit drawn: all eight bits of every byte
BitErrors(t, buffer) ==
    IF Drawn(t.bit_error_rate) THEN [i \in 1 .. Len(buffer) |-> 255 - buffer[i]]
    ELSE buffer

\* the all-False mask of np.delete is read as the index 0: the first byte goes
PermuteBufferIndexed(t, buffer, byte) ==
    IF buffer = <<>> THEN buffer ELSE Tail(buffer)

\* StreamTester._permute_buffer
PermuteBuffer(t, buffer, byte) == BitErrors(t, ByteInsert(t, ByteDrop(t, buffer), byte))

\* src.send_queue.pop(0)
QueuePop(t, side) == [t EXCEPT ![side].send_queue = Tail(@)]

\* StreamTester.process, lines 100-104: a buffer of the generator is received
\* before the buffer of the queue
BufferInsert(t, dst, buffer) ==
    IF Drawn(t.buffer_insert_rate) THEN StreamOnRecv(t, dst, buffer) ELSE t

\* StreamTester.process, lines 92-108: the body of the for loop for one
\* direction; rnd are the buffer and the byte the generator gives
Transfer(t, src, dst, rnd) ==
    IF t[src].send_queue = <<>> THEN t
    ELSE IF Drawn(t.buffer_drop_rate)
    THEN StreamOnSendDone(QueuePop(t, src), src, Head(t[src].send_queue))
    ELSE StreamOnRecv(
           StreamOnSendDone(QueuePop(BufferInsert(t, dst, rnd.buffer), src), src,
                            Head(t[src].send_queue)),
           dst, PermuteBuffer(t, Head(t[src].send_queue), rnd.byte))

\* StreamTester.process: a to b, then b to a, while a queue holds a buffer
RECURSIVE ProcessLoop(_, _)
ProcessLoop(t, rnd) ==
    IF t.a.send_queue = <<>> /\ t.b.send_queue = <<>> THEN t
    ELSE ProcessLoop(Transfer(Transfer(t, "a", "b", rnd), "b", "a", rnd), rnd)

\* a.open(recv_cbk, send_done_cbk) / b.open(...)
TesterOpen(side, recv_cbk, send_done_cbk) ==
    /\ tester' = StreamOpen(tester, side, recv_cbk, send_done_cbk)
    /\ UNCHANGED nonTester

\* a.send(buffer) / b.send(buffer)
TesterSend(side, buffer) ==
    /\ tester' = [StreamSend(tester, side, buffer) EXCEPT !.sends = @ + 1]
    /\ UNCHANGED nonTester

\* the five rates are assigned
TesterRates(p) ==
    /\ tester' = [tester EXCEPT !.buffer_drop_rate = p[1], !.buffer_insert_rate = p[2],
                                !.byte_drop_rate = p[3], !.byte_insert_rate = p[4],
                                !.bit_error_rate = p[5]]
    /\ UNCHANGED nonTester

\* StreamTester.process() with the buffer and the byte the generator gives
TesterProcess(buffer, byte) ==
    /\ tester' = [ProcessLoop(tester, [buffer |-> buffer, byte |-> byte])
                    EXCEPT !.runs = @ + 1]
    /\ UNCHANGED nonTester

-----------------------------------------------------------------------------
(* Specifications *)

SeqValues == {SEQ_MIDDLE, SEQ_STOP, SEQ_START, SEQ_SINGLE}

\* Transport under registration and connection events
Next ==
    \/ /\ Len(regHist) < MaxReg
       /\ \E p \in TestPorts, h \in Handlers \cup {None} : RegisterPort(p, h)
    \/ /\ Len(evHist) < MaxEvents
       /\ \E e \in Events : TransportOnEvent(e)

Init == TInit /\ LInit(0) /\ PInit /\ CInit /\ XInit /\ SInit /\ KInit

Spec == Init /\ [][Next]_vars

\* The state after Transport(send_fn), register_port(2, h1), register_port(3, h2)
\* (TransportTest.setUp registers its port the same way)
OpenRegs == <<[port |-> 2, handler |-> "h1"], [port |-> 3, handler |-> "h2"]>>

OpenInit ==
    /\ ports = [i \in PortIds |-> IF i = 2 THEN "h1" ELSE IF i = 3 THEN "h2" ELSE None]
    /\ msgs = [i \in PortIds |-> <<>>]
    /\ last_tx_event = TX_DISCONNECTED
    /\ sendLog = <<>>
    /\ recvLog = <<>>
    /\ eventLog = PortOnEvent(2, "h1", TX_DISCONNECTED) \o PortOnEvent(3, "h2", TX_DISCONNECTED)
    /\ rxHist = <<>>
    /\ evHist = <<>>
    /\ regHist = OpenRegs
    /\ txHist = <<>>
    /\ wire = <<>>

InitOpen == OpenInit /\ LInit(0) /\ PInit /\ CInit /\ XInit /\ SInit /\ KInit

\* Transport reassembling fragments that arrive from the Data Link, with
\* Data Link resets and ports closed or replaced meanwhile
NextReasm ==
    \/ /\ Len(regHist) < Len(OpenRegs) + MaxClose
       /\ \E p \in TestPorts, h \in Handlers \cup {None} : RegisterPort(p, h)
    \/ /\ Len(evHist) < MaxResets
       /\ TransportOnEvent(RX_RESET_REQUEST)
    \/ /\ Len(rxHist) < MaxRecv
       /\ \E p \in TestPorts, seq \in SeqValues : TransportOnRecv(p, 4660, seq)

SpecReasm == InitOpen /\ [][NextReasm]_vars

\* Fragments for two open ports arriving interleaved
NextInterleave ==
    /\ Len(rxHist) < MaxRecv
    /\ \E p \in TestPorts, seq \in SeqValues : TransportOnRecv(p, 4660, seq)

SpecInterleave == InitOpen /\ [][NextInterleave]_vars

\* Transport.send looped back into Transport.on_recv of the same Transport
NextSegment ==
    \/ /\ Len(txHist) < MaxSends
       /\ \E p \in TestPorts, pd \in TestPortData, n \in TestLens :
             TransportSend(p, pd, TestMsg(n))
    \/ Loopback

SpecSegment == InitOpen /\ [][NextSegment]_vars

\* number of DATA frames sent in this run, retransmissions not counted
SentCount == Cardinality({txLog[k] : k \in 1 .. Len(txLog)})

\* Two Data Links back to back over the lossy byte pipe
NextLink ==
    \/ /\ SentCount < MaxLinkSends
       /\ DlSend
    \/ /\ Len(txLog) - SentCount < MaxRetx
       /\ Elapse
    \/ Process
    \/ DlRecvData
    \/ DlRecvAck
    \/ /\ lossCount < MaxLoss
       /\ LoseAB
    \/ /\ lossCount < MaxLoss
       /\ LoseBA

InitLink == TInit /\ (\E s \in StartIds : LInit(s)) /\ PInit /\ CInit /\ XInit /\ SInit /\ KInit

SpecLink == InitLink /\ [][NextLink]_vars

\* test_timeout: every frame the sender writes is destroyed
DropAll ==
    /\ chanAB # <<>>
    /\ chanAB' = <<>>
    /\ lossCount' = lossCount + Len(chanAB)
    /\ UNCHANGED <<tx_frame_id, txWindow, connected, tx_count, txLog, doneLog,
                   linkEvents, timeout, timer_cbk, chanBA, rx_expected, rxBuf,
                   deliverLog>>
    /\ UNCHANGED nonLink

NextTimeout ==
    \/ /\ tx_count < MaxDeadSends
       /\ DlSend
    \/ DropAll
    \/ /\ chanAB = <<>>
       /\ Elapse
    \/ Process

SpecTimeout == Init /\ [][NextTimeout]_vars

\* test_send_one with a byte pipe that destroys some frames and holds others
\* back: acknowledgements arrive late, more than once, or after the timeout
NextLate ==
    \/ /\ txLog = <<>>
       /\ DlSend
    \/ /\ Len(chanBA) < MaxAckQueue
       /\ DlRecvData
    \/ LoseAB
    \/ DlRecvAck
    \/ LoseBA
    \/ /\ chanAB = <<>>
       /\ Elapse
    \/ Process

SpecLate == Init /\ [][NextLate]_vars

-----------------------------------------------------------------------------
(* PubSub specifications *)

TopicA == <<"a">>

TopicB == <<"b">>

TopicAA == <<"a", SLASH, "a">>

TopicAB == <<"a", SLASH, "b">>

Callbacks == {"sub1_fn", "sub2_fn"}

\* Publishes reaching the subscribers of the topic and of its ancestors
NextPublish ==
    \/ \E t \in {ROOT, TopicA, TopicAB} : PubSubSubscribe(t, "sub1_fn", PyTrue)
    \/ PubSubSubscribe(TopicA, "sub2_fn", PyTrue)
    \/ \E t \in {TopicA, TopicAB, TopicB}, x \in {None, "there"},
          r \in {None, PyTrue}, c \in {None, "sub1_fn"} :
          PubSubPublish(t, x, r, c)

SpecPublish == Init /\ [][NextPublish]_vars

\* Retained values replayed to a subscriber that comes and goes
NextReplay ==
    \/ \E t \in {TopicA, TopicAA, TopicAB, TopicB}, x \in {None, "there"},
          r \in {None, PyTrue} :
          PubSubPublish(t, x, r, None)
    \/ \E t \in {ROOT, TopicA}, k \in {None, PyTrue} :
          PubSubSubscribe(t, "sub1_fn", k)
    \/ \E t \in {ROOT, TopicA} : PubSubUnsubscribe(t, "sub1_fn")

SpecReplay == Init /\ [][NextReplay]_vars

Metas ==
    {<<>>, <<Meta(TRUE, "there", "on")>>, <<Meta(TRUE, "new", None)>>,
     <<Meta(TRUE, "new", "maybe")>>}

\* Topics created, described and read back
NextAccess ==
    \/ \E t \in {TopicA, TopicAB} : PubSubGet(t)
    \/ \E t \in {TopicA, TopicAB}, m \in Metas, c \in {None, "sub1_fn"} :
          PubSubCreate(t, m, c)
    \/ PubSubMeta(TopicAB, <<Meta(FALSE, None, None)>>)
    \/ \E x \in {"there", "new"}, r \in {None, PyTrue} :
          PubSubPublish(TopicAB, x, r, None)
    \/ PubSubSubscribe(TopicAB, "sub2_fn", None)

SpecAccess == Init /\ [][NextAccess]_vars

\* number of Transport.send calls with arguments in and out of range
MaxRangeSends == 2

\* port ids and port_data values at and beyond the ends of their ranges
RangePorts == {-1, 2, PORTS_MAX + 1}

RangePortData == {-1, PORT_DATA_MASK, PORT_DATA_MASK + 1}

\* Transport.send with arguments in and out of range
NextSendRange ==
    /\ Len(txHist) < MaxRangeSends
    /\ \E p \in RangePorts, pd \in RangePortData, n \in {1, PAYLOAD_MAX + 1} :
          TransportSend(p, pd, TestMsg(n))

SpecSendRange == InitOpen /\ [][NextSendRange]_vars

\* number of publishes and replays forwarded over the PubSubPort
MaxPortSends == 1

\* topic names of 1, 3, 31 and 32 bytes below the forwarded topics
LongName(n) == <<"s", "/">> \o [i \in 1 .. n - 2 |-> "a"]

PortTopics == {PortTopicS, PortTopicC, <<"s", "/", "x">>, LongName(TOPIC_BYTES_MAX - 1),
               LongName(TOPIC_BYTES_MAX)}

InitPort == PortInit /\ LInit(0) /\ CInit /\ SInit /\ KInit

\* publishes and replays on one side, delivery on the other
NextPort ==
    \/ /\ pport.n < MaxPortSends
       /\ \E t \in PortTopics, x \in PortValues, r \in {None, PyTrue} : PortPublish(t, x, r)
    \/ /\ pport.n < MaxPortSends
       /\ \E t \in PortTopics, x \in PortValues : PortReplay(t, x)
    \/ PortLoopback

SpecPort == InitPort /\ [][NextPort]_vars

\* number of connection events handed to the Transport
MaxConnEvents == 4

InitPort0 == Port0Init /\ LInit(0) /\ CInit /\ XInit /\ KInit

\* Port0Server under connection events, with a peer that does not answer
NextConn ==
    /\ Len(evHist) < MaxConnEvents
    /\ \E e \in Events : Port0Event(e)

SpecConn == InitPort0 /\ [][NextConn]_vars

\* number of connection events and of received messages during the META scan
MaxMetaEvents == 2

MaxMetaRecv == 33

\* Port0Server with a peer that answers: connection events, the echo enable
\* handler called before the connection is up, the messages of the scan
NextMeta ==
    \/ /\ Len(evHist) < MaxMetaEvents
       /\ \E e \in {TX_CONNECTED, TX_DISCONNECTED} : Port0Event(e)
    \/ /\ port0.state # ST_CONNECTED
       /\ \E v \in {0, 1} : v # port0.echo_enable /\ Port0EchoEnable(v)
    \/ /\ Len(rxHist) < MaxMetaRecv
       /\ PeerAnswer

SpecMeta == InitPort0 /\ [][NextMeta]_vars

\* number of connection events while the peer answers the META scan
MaxLiveEvents == 3

\* The META scan with a peer that answers every request it receives; a
\* disconnect loses the requests in flight
NextMetaLive ==
    \/ /\ Len(evHist) < MaxLiveEvents
       /\ Port0Event(TX_CONNECTED)
    \/ /\ Len(evHist) < MaxLiveEvents
       /\ Port0LinkDown
    \/ PeerAnswer

SpecMetaLive == InitPort0 /\ [][NextMetaLive]_vars /\ WF_peerTaken(PeerTakes)

\* number of messages received and of connection events in the echo service
MaxEchoRecv == 2

MaxEchoEvents == 2

\* cmd_meta and payloads of the ECHO messages of the peer: no byte, one byte,
\* a frame of 8 bytes with frame id 0, a frame of 9 bytes with frame id 1
EchoCmdMeta == {0, 255}

EchoPayloads == {<<>>, <<7>>, PackU64(0), PackU64(1) \o <<5>>}

\* Port0Server as echo responder and echo generator: the peer sends ECHO
\* requests and responses and answers the requests it receives
NextEcho ==
    \/ /\ Len(rxHist) < MaxEchoRecv
       /\ \E cmd_meta \in EchoCmdMeta, msg \in EchoPayloads :
             \/ PeerSend(PackReq(OP_ECHO, cmd_meta), msg)
             \/ PeerSend(PackRsp(OP_ECHO, cmd_meta), msg)
    \/ /\ Len(rxHist) < MaxEchoRecv
       /\ PeerAnswer
    \/ /\ Len(evHist) < MaxEchoEvents
       /\ Port0Event(TX_CONNECTED)
    \/ /\ port0.echo_enable = 0
       /\ Port0EchoEnable(1)
    \/ /\ port0.echo_outstanding # 1
       /\ Port0EchoOutstanding(1)
    \/ /\ port0.echo_length # 8
       /\ Port0EchoLength(8)

SpecEcho == InitPort0 /\ [][NextEcho]_vars

\* longest string and longest byte array handed to the codec
MaxText == 2

\* code points of the strings: NUL, 'a', e with acute accent (two bytes in
\* UTF-8), the euro sign (three bytes)
TestCodePoints == {0, 97, 233, 8364}

TestStrings == UNION {[1 .. n -> TestCodePoints] : n \in 0 .. MaxText}

TestBytes == UNION {[1 .. n -> {0, 104, 255}] : n \in 0 .. MaxText}

\* 2^31 - 1 is the largest integer of the model
TestInts == {0, 1, 42, 255, 256, 65535, 65536, 16777216, 2147483647}

TestLists == {<<>>, <<0>>, <<1, 2>>, <<10, 255, 65536>>}

TestDicts == {<<>>, <<97, 1>>, <<104, 42, 119, 0>>}

CodecValues ==
    {PyNone} \cup {PyInt(n) : n \in TestInts \cup {-1}}
    \cup {PyStr(t) : t \in TestStrings}
    \cup {PyValue("bin", b) : b \in TestBytes}
    \cup {PyValue("list", l) : l \in TestLists}
    \cup {PyValue("dict", d) : d \in TestDicts}
    \cup {StrDict(<<104, 105>>, <<119, 233>>)}

\* a value is chosen (TransportEncoderTest)
CodecValueInit == codec \in {[CodecIdle EXCEPT !.stage = "value", !.value = v] : v \in CodecValues}

InitCodec == TInit /\ LInit(0) /\ PInit /\ CodecValueInit /\ XInit /\ SInit /\ KInit

\* payload_encode followed by payload_decode
NextCodec ==
    \/ CodecEncode
    \/ CodecDecode

SpecCodec == InitCodec /\ [][NextCodec]_vars

-----------------------------------------------------------------------------
(* Helpers of the properties *)

Last(q) == q[Len(q)]

\* the entries appended to a log by the step
Suffix(old, new) == SubSeq(new, Len(old) + 1, Len(new))

IsPrefix(old, new) == Len(old) <= Len(new) /\ SubSeq(new, 1, Len(old)) = old

\* ceil(n / PAYLOAD_MAX), or 1 when n <= PAYLOAD_MAX
ExpectedFragments(n) ==
    IF n <= PAYLOAD_MAX THEN 1 ELSE (n + PAYLOAD_MAX - 1) \div PAYLOAD_MAX

RECURSIVE SumFragments(_)
SumFragments(h) ==
    IF h = <<>> THEN 0 ELSE ExpectedFragments(Len(Head(h).msg)) + SumFragments(Tail(h))

\* positions of rxHist with a fragment for port p
RxOn(h, p) == {i \in 1 .. Len(h) : PortIdOf(h[i].metadata) = p}

\* position of the most recent START/SINGLE fragment for port p, 0 if none
LastStart(h, p) ==
    LET S == {i \in RxOn(h, p) : SeqOf(h[i].metadata) \in {SEQ_START, SEQ_SINGLE}}
    IN  IF S = {} THEN 0 ELSE CHOOSE i \in S : \A k \in S : k <= i

\* the payloads received for port p at positions from..Len(h), concatenated
RECURSIVE ConcatFrom(_, _, _)
ConcatFrom(h, p, from) ==
    IF from > Len(h) THEN <<>>
    ELSE (IF PortIdOf(h[from].metadata) = p THEN h[from].payload ELSE <<>>)
         \o ConcatFrom(h, p, from + 1)

\* the final (STOP/SINGLE) fragments of rxHist, in arrival order
Finals(h) == SelectSeq(h, LAMBDA f : SeqOf(f.metadata) \in {SEQ_STOP, SEQ_SINGLE})

\* most recent TX_CONNECTED / TX_DISCONNECTED of an event history
RECURSIVE MostRecentTx(_)
MostRecentTx(h) ==
    IF h = <<>> THEN TX_DISCONNECTED
    ELSE IF Last(h) \in {TX_CONNECTED, TX_DISCONNECTED} THEN Last(h)
    ELSE MostRecentTx(SubSeq(h, 1, Len(h) - 1))

-----------------------------------------------------------------------------
(* Claims *)

\* C2: segmentation round trip.  Once every fragment emitted by Transport.send
\* has been fed to Transport.on_recv, each message sent (of any length from 0)
\* has been delivered exactly once, byte-identical and with its port_data, and
\* send emitted ceil(len/256) fragments for it, 1 when len <= 256.
C2_RoundTrip ==
    wire = <<>> =>
        /\ Len(sendLog) = SumFragments(txHist)
        /\ Len(recvLog) = Len(txHist)
        /\ \A k \in 1 .. Len(txHist) :
              k <= Len(recvLog) =>
                 /\ recvLog[k].port = txHist[k].port
                 /\ recvLog[k].port_data = txHist[k].port_data
                 /\ recvLog[k].msg = txHist[k].msg

\* C3: fragment labelling by Transport.send.  A message of 1..256 bytes is one
\* SINGLE fragment; a longer one is START, MIDDLE*, STOP with 256 bytes in every
\* fragment but the last and 1..256 bytes in the last; the metadata of every
\* fragment is (port_data << 8) | port_id | (seq << 6).
C3_Labelled(m, frs) ==
    LET n == Len(m.msg) IN
    /\ (1 <= n /\ n <= PAYLOAD_MAX) =>
          /\ Len(frs) = 1
          /\ SeqOf(frs[1].metadata) = SEQ_SINGLE
    /\ n > PAYLOAD_MAX =>
          /\ Len(frs) >= 2
          /\ SeqOf(frs[1].metadata) = SEQ_START
          /\ SeqOf(frs[Len(frs)].metadata) = SEQ_STOP
          /\ \A i \in 2 .. Len(frs) - 1 : SeqOf(frs[i].metadata) = SEQ_MIDDLE
    /\ n >= 1 =>
          /\ \A i \in 1 .. Len(frs) - 1 : Len(frs[i].payload) = PAYLOAD_MAX
          /\ 1 <= Len(frs[Len(frs)].payload) /\ Len(frs[Len(frs)].payload) <= PAYLOAD_MAX
          /\ Concat([i \in 1 .. Len(frs) |-> frs[i].payload]) = m.msg
          /\ \A i \in 1 .. Len(frs) :
                \E seq \in SeqValues :
                   frs[i].metadata = m.port_data * 256 + m.port + seq * 64

C3_FragmentLabels ==
    [][txHist' # txHist => C3_Labelled(Last(txHist'), Suffix(sendLog, sendLog'))]_vars

C3_Witness ==
    /\ Len(txHist) = 1
    /\ Len(txHist[1].msg) = 2 * PAYLOAD_MAX + 1
    /\ Len(sendLog) = 3
    /\ SeqOf(sendLog[1].metadata) = SEQ_START
    /\ SeqOf(sendLog[2].metadata) = SEQ_MIDDLE
    /\ SeqOf(sendLog[3].metadata) = SEQ_STOP
    /\ Len(sendLog[3].payload) = 1

\* C4: every message delivered to a port's on_recv is the concatenation of
\* exactly the fragments received on that port from the most recent START (or
\* the SINGLE itself) up to the terminating STOP/SINGLE, and the port's buffer
\* is empty after the delivery.
C4_DeliveredFromStart ==
    [][recvLog' # recvLog =>
         LET d == Last(recvLog') IN
         /\ LastStart(rxHist', d.port) > 0
         /\ d.msg = ConcatFrom(rxHist', d.port, LastStart(rxHist', d.port))
         /\ msgs'[d.port] = <<>>]_vars

\* C5: a MIDDLE or STOP fragment that arrives on a port whose reassembly buffer
\* is empty starts no reassembly and delivers nothing.
C5_OrphanDropped ==
    [][(/\ rxHist' # rxHist
        /\ SeqOf(Last(rxHist').metadata) \in {SEQ_MIDDLE, SEQ_STOP}
        /\ msgs[PortIdOf(Last(rxHist').metadata)] = <<>>)
       => (/\ msgs'[PortIdOf(Last(rxHist').metadata)] = <<>>
           /\ recvLog' = recvLog)]_vars

\* C6: the first event a newly registered handler observes is synthesized at
\* registration and is the most recent TX_CONNECTED/TX_DISCONNECTED passed to
\* Transport.on_event (TX_DISCONNECTED if none); other events do not change it.
C6_SynthesizedEvent ==
    [][(regHist' # regHist /\ Last(regHist').handler # None) =>
          eventLog' = Append(eventLog, [port |-> Last(regHist').port,
                                        handler |-> Last(regHist').handler,
                                        event |-> MostRecentTx(evHist)])]_vars

C6_Witness ==
    /\ evHist = <<TX_CONNECTED, RX_RESET_REQUEST>>
    /\ Len(regHist) = 1
    /\ regHist[1].handler # None
    /\ Len(eventLog) = 1
    /\ eventLog[1].event = TX_CONNECTED

\* C7: an event passed to Transport.on_event is delivered exactly once to the
\* handler of every port that has one, and to nothing else; deliveries follow
\* the order in which the events arrive.
C7_EventFanout ==
    [][evHist' # evHist =>
         LET new == Suffix(eventLog, eventLog') IN
         /\ IsPrefix(eventLog, eventLog')
         /\ \A i \in 1 .. Len(new) :
               /\ new[i].event = Last(evHist')
               /\ new[i].handler = ports[new[i].port]
               /\ new[i].handler # None
         /\ \A p \in PortIds :
               Cardinality({i \in 1 .. Len(new) : new[i].port = p})
                  = (IF ports[p] # None THEN 1 ELSE 0)]_vars

C7_Witness ==
    /\ Len(evHist) = 2
    /\ ports[2] # None
    /\ ports[3] # None
    /\ Len(eventLog) >= 4
    /\ eventLog[Len(eventLog)].event = evHist[2]
    /\ eventLog[Len(eventLog) - 1].event = evHist[2]
    /\ eventLog[Len(eventLog) - 2].event = evHist[1]
    /\ eventLog[Len(eventLog) - 3].event = evHist[1]

\* C8: after an RX_RESET_REQUEST event every port's reassembly buffer is empty,
\* and after register_port unregisters or replaces a port's handler that port's
\* buffer is empty.
C8_ClearedOnReset ==
    [][/\ (evHist' # evHist /\ Last(evHist') = RX_RESET_REQUEST) =>
             \A p \in PortIds : msgs'[p] = <<>>
       /\ regHist' # regHist => msgs'[Last(regHist').port] = <<>>]_vars

\* C9: a fragment for port p never alters the buffer of another port; the
\* messages are delivered, within a port and across ports, in the order in
\* which their final (STOP/SINGLE) fragments arrived, and a message delivered
\* on a port is made of fragments that arrived for that port only.
C9_Order(h, log) ==
    /\ Len(log) = Len(Finals(h))
    /\ \A k \in 1 .. Len(log) :
          /\ log[k].port = PortIdOf(Finals(h)[k].metadata)
          /\ Last(log[k].msg) = Last(Finals(h)[k].payload)
          /\ \A i \in 1 .. Len(log[k].msg) :
                PortIdOf(h[log[k].msg[i]].metadata) = log[k].port

C9_Interleaving ==
    [][rxHist' # rxHist =>
         /\ \A q \in PortIds :
               q # PortIdOf(Last(rxHist').metadata) => msgs'[q] = msgs[q]
         /\ C9_Order(rxHist', recvLog')]_vars

C9_Witness ==
    /\ Len(recvLog) = 2
    /\ recvLog[1].port = 3
    /\ recvLog[1].msg = <<2, 3>>
    /\ recvLog[2].port = 2
    /\ recvLog[2].msg = <<1, 4>>

\* number of times message m was handed to the byte pipe
TxTimes(m) == Cardinality({k \in 1 .. Len(txLog) : txLog[k] = m})

Delivered(m) == \E i \in 1 .. Len(deliverLog) : deliverLog[i].msg = m

Buffered(m) == \E b \in rxBuf : b.msg = m

Acked(m) == \E i \in 1 .. Len(doneLog) : doneLog[i].msg = m /\ doneLog[i].status = SUCCESS

DoneTimes(m) == Cardinality({i \in 1 .. Len(doneLog) : doneLog[i].msg = m})

InWindow(w, m) == \E i \in 1 .. Len(w) : w[i].msg = m

C10_Step(m) ==
    /\ TxTimes(m)' \in {TxTimes(m), TxTimes(m) + 1}
    /\ (TxTimes(m) >= 1 /\ TxTimes(m)' = TxTimes(m) + 1) => timeout = DeadlinePassed
    /\ TxTimes(m)' <= 1 + MAX_RETRIES
    /\ InWindow(txWindow', m) => (timeout' # None /\ DoneTimes(m)' = 0)
    /\ (timeout = DeadlinePassed /\ timeout' # DeadlinePassed /\ InWindow(txWindow, m)
           /\ \E i \in 1 .. Len(txWindow) : txWindow[i].msg = m /\ txWindow[i].due) =>
          IF TxTimes(m) < 1 + MAX_RETRIES
          THEN TxTimes(m)' = TxTimes(m) + 1 /\ InWindow(txWindow', m)
          ELSE /\ ~InWindow(txWindow', m)
               /\ DoneTimes(m)' = 1
    /\ DoneTimes(m)' # DoneTimes(m) =>
          /\ DoneTimes(m) = 0 /\ DoneTimes(m)' = 1
          /\ \E i \in 1 .. Len(doneLog') :
                doneLog'[i] = [msg |-> m, status |-> TIMED_OUT]
          /\ TxTimes(m) = 1 + MAX_RETRIES
          /\ timeout = DeadlinePassed
          /\ ~InWindow(txWindow', m)
          /\ Len(linkEvents') > Len(linkEvents)
          /\ Last(linkEvents') = TX_DISCONNECTED

RepliesRead == Len(txLog) - lossCount - Len(chanAB) - Len(chanBA)

OnPath(n, t) ==
    \/ n = ROOT
    \/ n = t
    \/ /\ Len(n) < Len(t)
       /\ SubSeq(t, 1, Len(n)) = n
       /\ t[Len(n) + 1] = SLASH

\* the callbacks subscribed at topic t or at one of its ancestors
PathSubscribers(tp, t) ==
    {c \in Callbacks : \E n \in DOMAIN tp : OnPath(n, t) /\ InSeq(c, tp[n].subscribers)}

Invoked(cs) == {cs[i].cbk : i \in 1 .. Len(cs)}

\* the last call was a publish that did not raise
Published(op) == op.op = "publish" /\ op.result.error = None

\* C12: a retained publish of the value the topic already retains invokes no
\* subscriber and changes nothing; the first retained publish to a topic that
\* has no retained value yet (the topic did not exist) stores the value and
\* invokes every subscriber of the topic and its ancestors other than src_cbk,
\* whatever the value is, null included.
C12_RetainedDedup ==
    [][(Published(lastOp') /\ PyBool(lastOp'.retain)) =>
         LET t == lastOp'.topic
             x == lastOp'.value
         IN  /\ (t \in DOMAIN topics /\ topics[t].value = x /\ x # None) =>
                   (calls' = <<>> /\ topics' = topics)
             /\ t \notin DOMAIN topics =>
                   /\ topics'[t].value = x
                   /\ Invoked(calls') = PathSubscribers(topics, t) \ {lastOp'.cbk}]_vars

\* the publish of x to topic t is one the de-duplication of _Topic.publish drops
Suppressed(tp, t, x, retain) ==
    /\ PyBool(retain)
    /\ IF t \in DOMAIN tp THEN tp[t].value = x ELSE x = None

\* C13: a publish with src_cbk invokes src_cbk nowhere, neither for its
\* subscription at the published topic nor for one at an ancestor up to the
\* root, and a publish that is not de-duplicated invokes every other callback
\* subscribed on that path.
C13_SourceSkipped ==
    [][Published(lastOp') =>
         /\ lastOp'.cbk # None => lastOp'.cbk \notin Invoked(calls')
         /\ ~Suppressed(topics, lastOp'.topic, lastOp'.value, lastOp'.retain) =>
               Invoked(calls') = PathSubscribers(topics, lastOp'.topic) \ {lastOp'.cbk}]_vars

C13_Witness ==
    /\ Published(lastOp)
    /\ lastOp.topic = TopicAB
    /\ lastOp.cbk = "sub1_fn"
    /\ InSeq("sub1_fn", topics[TopicAB].subscribers)
    /\ InSeq("sub1_fn", topics[TopicA].subscribers)
    /\ InSeq("sub1_fn", topics[ROOT].subscribers)
    /\ InSeq("sub2_fn", topics[TopicA].subscribers)
    /\ Invoked(calls) = {"sub2_fn"}

\* callback c is subscribed at node n
SubscribedAt(tp, c, n) == n \in DOMAIN tp /\ InSeq(c, tp[n].subscribers)

\* C14: a publish to topic t that is not de-duplicated invokes a callback
\* subscribed at node n (and not named as src_cbk) when n is t or an ancestor of
\* t, the root included, passing the full name t, the value and the retain
\* flag; a callback subscribed only at nodes that are neither t nor an ancestor
\* of t is not invoked.
C14_SubtreeDelivery ==
    [][(Published(lastOp') /\
          ~Suppressed(topics, lastOp'.topic, lastOp'.value, lastOp'.retain)) =>
         LET t == lastOp'.topic
             args == <<t, lastOp'.value, lastOp'.retain>>
         IN  /\ \A c \in Callbacks \ {lastOp'.cbk} : \A n \in DOMAIN topics :
                   (SubscribedAt(topics, c, n) /\ OnPath(n, t)) =>
                      \E i \in 1 .. Len(calls') : calls'[i] = [cbk |-> c, args |-> args]
             /\ \A i \in 1 .. Len(calls') :
                   /\ calls'[i].args = args
                   /\ \E n \in DOMAIN topics :
                         SubscribedAt(topics, calls'[i].cbk, n) /\ OnPath(n, t)]_vars

\* sub2_fn at a and sub1_fn at the root get the publish to a/b under its full
\* name, and sub2_fn got nothing from the publish to b before
C14_Witness ==
    /\ Published(lastOp)
    /\ lastOp.topic = TopicAB
    /\ TopicB \in DOMAIN topics
    /\ topics[TopicA].subscribers = <<"sub2_fn">>
    /\ topics[TopicAB].subscribers = <<>>
    /\ topics[ROOT].subscribers = <<"sub1_fn">>
    /\ calls = <<PublishCall("sub2_fn", TopicAB, "there", lastOp.retain),
                 PublishCall("sub1_fn", TopicAB, "there", lastOp.retain)>>

\* number of times callback c was invoked by the calls cs
TimesInvoked(cs, c) == Cardinality({i \in 1 .. Len(cs) : cs[i].cbk = c})

\* C19: one publish invokes each callback at most once, also a callback that
\* is subscribed at the published topic and at ancestors of it.
C19_OncePerPublish ==
    [][Published(lastOp') => \A c \in Callbacks : TimesInvoked(calls', c) <= 1]_vars

\* the last call was a subscribe
Subscribed(op) == op.op = "subscribe" /\ op.result.error = None

\* the topics at or below node s that hold a retained value
RetainedBelow(tp, s) == {t \in DOMAIN tp : OnPath(s, t) /\ tp[t].value # None}

\* C15: a retained publish stores the value and a publish without retain
\* stores nothing; a subscribe to S then invokes the callback at once with
\* (T, v) exactly once for every topic T at or below S that retains a non-null
\* value v, and with nothing else; with skip_retained it invokes nothing.
C15_RetainedReplay ==
    [][/\ Published(lastOp') =>
            topics'[lastOp'.topic].value =
               IF PyBool(lastOp'.retain) THEN lastOp'.value
               ELSE IF lastOp'.topic \in DOMAIN topics THEN topics[lastOp'.topic].value
               ELSE None
       /\ Subscribed(lastOp') =>
            IF PyBool(lastOp'.skip) THEN calls' = <<>>
            ELSE /\ \A t \in RetainedBelow(topics', lastOp'.topic) :
                       Cardinality({i \in 1 .. Len(calls') :
                           calls'[i] = ReplayCall(lastOp'.cbk, t, topics'[t].value)}) = 1
                 /\ Len(calls') = Cardinality(RetainedBelow(topics', lastOp'.topic))]_vars

\* a subscribe to the root replayed the three retained values below it, and
\* not the topic that only had a publish without retain
C15_Witness ==
    /\ Subscribed(lastOp)
    /\ lastOp.topic = ROOT
    /\ ~PyBool(lastOp.skip)
    /\ RetainedBelow(topics, ROOT) = {TopicA, TopicAB, TopicB}
    /\ TopicAA \in DOMAIN topics
    /\ Len(calls) = 3

\* the order of the characters of a topic name
Rank(ch) == IF ch = SLASH THEN 0 ELSE IF ch = "a" THEN 1 ELSE 2

\* name p sorts before name q, character by character
RECURSIVE NameLess(_, _)
NameLess(p, q) ==
    IF q = <<>> THEN FALSE
    ELSE IF p = <<>> THEN TRUE
    ELSE IF Head(p) = Head(q) THEN NameLess(Tail(p), Tail(q))
    ELSE Rank(Head(p)) < Rank(Head(q))

\* C16: the retained values replayed by a subscribe come in topic-name order:
\* of two replayed topics where neither is an ancestor of the other, the one
\* whose name sorts first is replayed first, whichever was created first.
C16_ReplayOrder ==
    [][(Subscribed(lastOp') /\ ~PyBool(lastOp'.skip)) =>
         \A i, j \in 1 .. Len(calls') :
            (i < j /\ ~OnPath(calls'[i].args[1], calls'[j].args[1])
                   /\ ~OnPath(calls'[j].args[1], calls'[i].args[1])) =>
               NameLess(calls'[i].args[1], calls'[j].args[1])]_vars

\* the arguments of the calls cs, in order
ArgsOf(cs) == [i \in 1 .. Len(cs) |-> cs[i].args]

\* what a callback never seen before gets when it subscribes to topic t
FreshReplay(tp, t, skip_retained) ==
    LET f == TopicFind(tp, t, TRUE)
    IN  TopicSubscribe(f.topics, f.t, "fresh_fn", skip_retained).calls

C17_GetRetained ==
    [][lastOp'.op = "get" =>
         /\ topics' = topics
         /\ IF lastOp'.topic \in DOMAIN topics /\ topics[lastOp'.topic].value # None
            THEN lastOp'.result = Returned(topics[lastOp'.topic].value)
            ELSE lastOp'.result = Raised("KeyError")]_vars

\* C18: create of a topic whose node exists raises, invokes no subscriber and
\* leaves every node as it was; create of a topic that does not exist makes
\* the node and attaches the metadata.
C18_CreateExisting ==
    [][lastOp'.op = "create" =>
         IF lastOp'.topic \in DOMAIN topics
         THEN /\ lastOp'.result = Raised("ValueError")
              /\ topics' = topics
              /\ calls' = <<>>
         ELSE /\ lastOp'.topic \in DOMAIN topics'
              /\ topics'[lastOp'.topic].meta = lastOp'.meta]_vars

\* create('a') failed on a node that exists only as the parent of a/b, with a
\* default that would have been retained and a subscriber that would have
\* been added
C18_Witness ==
    /\ lastOp.op = "create"
    /\ lastOp.topic = TopicA
    /\ lastOp.result = Raised("ValueError")
    /\ lastOp.meta = <<Meta(TRUE, "there", "on")>>
    /\ lastOp.cbk = "sub1_fn"
    /\ topics[TopicA] = [NewTopic(<<ROOT>>) EXCEPT
                            !.children = <<[part |-> <<"b">>, node |-> TopicAB]>>]
    /\ topics[TopicAB].subscribers = <<"sub2_fn">>
    /\ calls = <<>>

\* the nodes at topic t or above it where callback c is subscribed
SubscriptionsOnPath(tp, c, t) == {n \in DOMAIN tp : OnPath(n, t) /\ InSeq(c, tp[n].subscribers)}

\* C21: a successful unsubscribe(T, cbk) takes cbk out of the subscriber list
\* of T and of no other node; a publish invokes a callback once for each node
\* on the path to the root where it is subscribed at that moment, so never
\* through a subscription that was removed and still through the others; and
\* no subscriber list ever holds a callback twice, whatever was re-subscribed.
C21_Unsubscribed ==
    [][/\ (lastOp'.op = "unsubscribe" /\ lastOp'.result.error = None) =>
            /\ ~InSeq(lastOp'.cbk, topics'[lastOp'.topic].subscribers)
            /\ \A n \in DOMAIN topics \ {lastOp'.topic} :
                  topics'[n].subscribers = topics[n].subscribers
       /\ (Published(lastOp') /\
             ~Suppressed(topics, lastOp'.topic, lastOp'.value, lastOp'.retain)) =>
            \A c \in Callbacks \ {lastOp'.cbk} :
               TimesInvoked(calls', c) =
                  Cardinality(SubscriptionsOnPath(topics', c, lastOp'.topic))
       /\ \A n \in DOMAIN topics' : \A i, j \in 1 .. Len(topics'[n].subscribers) :
            i # j => topics'[n].subscribers[i] # topics'[n].subscribers[j]]_vars

\* sub1_fn was taken off a, where values are retained below, and is still
\* subscribed at the root
C21_Witness ==
    /\ lastOp.op = "unsubscribe"
    /\ lastOp.result.error = None
    /\ lastOp.topic = TopicA
    /\ topics[TopicA].subscribers = <<>>
    /\ topics[ROOT].subscribers = <<"sub1_fn">>
    /\ TopicAB \in DOMAIN topics
    /\ topics[TopicAB].value = "there"

\* C22: payload_encode gives null the type NULL and one zero byte, an integer
\* of 0 .. 2^32 - 1 the type U32 and its four bytes least significant first,
\* a string the type STR and a JSON array or object the type JSON with the
\* UTF-8 bytes of the text and a trailing NUL, a byte array the type BIN; and
\* payload_decode of what payload_encode returned is the value again.
DtypeOf(x) ==
    IF x.kind = "NoneType" THEN PAYLOAD_NULL
    ELSE IF x.kind = "int" THEN PAYLOAD_U32
    ELSE IF x.kind = "str" THEN PAYLOAD_STR
    ELSE IF x.kind = "bin" THEN PAYLOAD_BIN
    ELSE PAYLOAD_JSON

Supported(x) == x.kind = "int" => x.v[1] >= 0

C22_CodecRoundTrip ==
    Supported(codec.value) =>
       /\ codec.stage \in {"encoded", "decoded"} =>
            /\ codec.error = None
            /\ codec.dtype = DtypeOf(codec.value)
            /\ codec.dtype \in {PAYLOAD_STR, PAYLOAD_JSON} =>
                 /\ codec.bytes[Len(codec.bytes)] = 0
                 /\ Utf8Decode(ButLast(codec.bytes)).ok
                 /\ codec.value.kind = "str" =>
                      Utf8Decode(ButLast(codec.bytes)).s = codec.value.v
            /\ codec.dtype = PAYLOAD_NULL => codec.bytes = <<0>>
            /\ codec.dtype = PAYLOAD_U32 =>
                 /\ Len(codec.bytes) = 4
                 /\ \A i \in 1 .. 4 : codec.bytes[i] \in 0 .. 255
                 /\ codec.bytes[1] + 256 * codec.bytes[2] + 65536 * codec.bytes[3]
                      + 16777216 * codec.bytes[4] = codec.value.v[1]
       /\ codec.stage = "decoded" => codec.decoded = codec.value

\* a three-byte character, an integer with four different bytes' worth of
\* digits and a JSON object came back from payload_decode
C22_Witness ==
    /\ codec.stage = "decoded"
    /\ \/ codec.value = PyStr(<<8364, 0>>)
       \/ codec.value = PyInt(2147483647)
       \/ codec.value = PyValue("dict", <<104, 42, 119, 0>>)
    /\ codec.decoded = codec.value
    /\ Len(codec.bytes) >= 4

\* C30: a Transport.send whose port_data is outside 0 .. 65535, or whose
\* port_id is outside 0 .. 31, ends with an error and hands no fragment to
\* the Data Link.
C30_SendRange ==
    [][txHist' # txHist =>
         LET c == Last(txHist')
         IN  (c.port_data \notin 0 .. PORT_DATA_MASK \/ c.port \notin PortIds) =>
                (c.error # None /\ sendLog' = sendLog)]_vars

\* the part of C30 on port_id alone
C30_PortIdRange ==
    [][txHist' # txHist =>
         LET c == Last(txHist')
         IN  c.port \notin PortIds => (c.error # None /\ sendLog' = sendLog)]_vars
\* the dtype code the wire format gives a value: NULL = 0, U32 = 1, STR = 4
WireDtype(x) ==
    IF x.kind = "NoneType" THEN PAYLOAD_NULL
    ELSE IF x.kind = "int" THEN PAYLOAD_U32
    ELSE PAYLOAD_STR

\* C29: a publish(topic, value, retain) of a topic of at most 31 bytes and a
\* null, u32 or string value that PubSubPort.send forwards gives a message
\* whose port_data has the dtype code of the value in bits 11..8 and the
\* retain flag in bit 12, and PubSubPort.on_recv of the peer, fed with it,
\* makes exactly one publish with the same topic, value and retain flag.
C29_PortRoundTrip ==
    (/\ pport.how = "publish"
     /\ pport.stage \in {"sent", "received"}
     /\ Len(pport.topic) < TOPIC_BYTES_MAX
     /\ Supported(PyOf(pport.value))) =>
       /\ pport.send.error = None
       /\ (pport.send.port_data \div 256) % 16 = WireDtype(PyOf(pport.value))
       /\ ((pport.send.port_data \div 4096) % 2 = 1) = PyBool(pport.retain)
       /\ pport.stage = "received" =>
            /\ pport.recv.error = None
            /\ pport.recv.publish =
                 <<[topic |-> CodePoints(pport.topic), value |-> PyOf(pport.value),
                    retain |-> PyBool(pport.retain), src_cbk |-> SEND]>>

\* the ports whose META response has been handed to Transport.on_recv
MetaAnswered(hist) ==
    {UnpackCmdMeta(PortDataOf(hist[i].metadata)) :
        i \in {j \in 1 .. Len(hist) :
                 /\ PortIdOf(hist[j].metadata) = 0
                 /\ UnpackOp(PortDataOf(hist[j].metadata)) = OP_META
                 /\ UnpackRsp(PortDataOf(hist[j].metadata))}}

\* C23: the state of Port0Server changes only along INIT -> META (on
\* TX_CONNECTED), META -> CONNECTED (the META responses of all 32 ports were
\* received), CONNECTED -> DISCONNECTED (on TX_DISCONNECTED) and
\* DISCONNECTED -> CONNECTED (on TX_CONNECTED).
C23_StateEdges ==
    [][port0'.state # port0.state =>
         \/ /\ port0.state = ST_INIT
            /\ port0'.state = ST_META
            /\ evHist' = Append(evHist, TX_CONNECTED)
         \/ /\ port0.state = ST_META
            /\ port0'.state = ST_CONNECTED
            /\ MetaAnswered(rxHist') = 0 .. PORTS_COUNT - 1
         \/ /\ port0.state = ST_CONNECTED
            /\ port0'.state = ST_DISCONNECTED
            /\ evHist' = Append(evHist, TX_DISCONNECTED)
         \/ /\ port0.state = ST_DISCONNECTED
            /\ port0'.state = ST_CONNECTED
            /\ evHist' = Append(evHist, TX_CONNECTED)]_vars

\* the value PubSub.get returns and a later subscriber is replayed
RetainedValue(tp, topic) ==
    LET f == TopicFind(tp, topic, FALSE)
    IN  IF f.found THEN tp[f.t].value ELSE "KeyError"

\* C28: after Port0Server has processed TX_CONNECTED the retained value of
\* h/port/0/conn/tx is 1, and after TX_DISCONNECTED it is 0.
C28_ConnTxRetained ==
    [][/\ evHist' = Append(evHist, TX_CONNECTED) =>
            RetainedValue(topics', TopicConnTx) = "1"
       /\ evHist' = Append(evHist, TX_DISCONNECTED) =>
            RetainedValue(topics', TopicConnTx) = "0"]_vars

\* the requests of operation op that Port0Server has sent, in order
RequestsSent(hist, op) ==
    SelectSeq(hist, LAMBDA r : /\ r.port = 0
                               /\ UnpackOp(r.port_data) = op
                               /\ ~UnpackRsp(r.port_data))

\* the responses to operation op that Port0Server has received, in order
ResponsesReceived(hist, op) ==
    SelectSeq(hist, LAMBDA r : /\ PortIdOf(r.metadata) = 0
                               /\ UnpackOp(PortDataOf(r.metadata)) = op
                               /\ UnpackRsp(PortDataOf(r.metadata)))

\* C24: the META requests are sent for the port ids 0, 1, 2, ... in this
\* order, each once, and the number of META requests sent and not yet answered
\* is at most META_OUTSTANDING.
C24_MetaWindow ==
    /\ \A i \in 1 .. Len(RequestsSent(txHist, OP_META)) :
          UnpackCmdMeta(RequestsSent(txHist, OP_META)[i].port_data) = i - 1
    /\ Len(RequestsSent(txHist, OP_META)) - Len(ResponsesReceived(rxHist, OP_META))
         <= META_OUTSTANDING

\* C26: in CONNECTED with echo enabled, the number of ECHO requests sent and
\* not yet answered is at least the configured echo_outstanding.
C26_EchoWindowFull ==
    (port0.state = ST_CONNECTED /\ port0.echo_enable # 0) =>
        Len(RequestsSent(txHist, OP_ECHO)) - Len(ResponsesReceived(rxHist, OP_ECHO))
          >= port0.echo_outstanding

\* the META scan is complete: the responses of all ports were received, the
\* PubSubPort of the peer's port 1 is registered, the list is retained at
\* h/port/0/meta and Port0Server is in CONNECTED
ScanComplete ==
    /\ MetaAnswered(rxHist) = 0 .. PORTS_COUNT - 1
    /\ \A p \in PeerPubSubPorts : ports[p] = PUBSUB_PORT
    /\ RetainedValue(topics, TopicMeta) = SELF_META
    /\ port0.state = ST_CONNECTED

\* C25: when the link stays connected in the end and the peer answers every
\* META request it receives, the META scan eventually completes, also after
\* disconnects that lost the requests in flight.
C25_ScanCompletes == <>[](last_tx_event = TX_CONNECTED) => <>ScanComplete

\* the records of the calls to Transport.send made by the step
SentByStep == SubSeq(txHist', Len(txHist) + 1, Len(txHist'))

\* the ECHO message on port 0 that the step received, if it received one
EchoReceived ==
    IF /\ Len(rxHist') = Len(rxHist) + 1
       /\ PortIdOf(rxHist'[Len(rxHist')].metadata) = 0
       /\ UnpackOp(PortDataOf(rxHist'[Len(rxHist')].metadata)) = OP_ECHO
    THEN <<rxHist'[Len(rxHist')]>>
    ELSE <<>>

IsEchoResponse(r) ==
    /\ r.port = 0
    /\ UnpackOp(r.port_data) = OP_ECHO
    /\ UnpackRsp(r.port_data)

StoredValue(tp, t) == IF t \in DOMAIN tp THEN tp[t].value ELSE None

UnsubscribeFailed(op) == op.op = "unsubscribe" /\ op.result.error # None

\* C40: an unsubscribe that fails leaves the PubSub as it was: no node is
\* made, no subscriber list and no retained value changes, and a create of the
\* topic that would have succeeded before the call succeeds after it.
C40_FailedUnsubscribe ==
    [][UnsubscribeFailed(lastOp') =>
         /\ topics' = topics
         /\ CreateExists(TopicFind(topics', lastOp'.topic, FALSE)) =
               CreateExists(TopicFind(topics, lastOp'.topic, FALSE))]_vars

\* a failing unsubscribe at a node that exists changes nothing
C40_ExistingNode ==
    [][(UnsubscribeFailed(lastOp') /\ lastOp'.topic \in DOMAIN topics) =>
         topics' = topics]_vars

\* a failing unsubscribe changes no subscriber list and no retained value of
\* the nodes that exist
C40_ListsKept ==
    [][UnsubscribeFailed(lastOp') =>
         \A n \in DOMAIN topics :
            /\ topics'[n].subscribers = topics[n].subscribers
            /\ topics'[n].value = topics[n].value]_vars

\* metadata with a default: retained, not retained by a missing 'retain', not
\* retained by 'off', and a retained null
CreateMetas ==
    {<<Meta(TRUE, "there", "on")>>, <<Meta(TRUE, "new", None)>>,
     <<Meta(TRUE, "new", "off")>>, <<Meta(TRUE, None, "1")>>}

\* Topics created with a default under subscribers that are there already
NextCreate ==
    \/ \E t \in {ROOT, TopicA}, c \in Callbacks : PubSubSubscribe(t, c, None)
    \/ \E t \in {TopicA, TopicAB}, m \in CreateMetas, c \in Callbacks :
          PubSubCreate(t, m, c)
    \/ \E t \in {TopicA, TopicAB} : PubSubGet(t)

SpecCreate == Init /\ [][NextCreate]_vars

\* the last call was a create with a default and a callback that did not raise
CreatedWithDefault(op) ==
    /\ op.op = "create"
    /\ op.result.error = None
    /\ op.meta # <<>>
    /\ op.meta[1].has_default
    /\ op.cbk # None

\* what the claim says of the create that op records, from tree tp to tree tq
\* with the invocations cs
CreateDelivers(op, tp, tq, cs) ==
    LET t == op.topic
        d == op.meta[1].default
        retain == AsBool(MetaRetain(op.meta[1]))
    IN  /\ tq[t].meta = op.meta
        /\ Cardinality({i \in 1 .. Len(tq[t].subscribers) :
                           tq[t].subscribers[i] = op.cbk}) = 1
        /\ \A c \in PathSubscribers(tp, t) \ {op.cbk} :
              \E i \in 1 .. Len(cs) : cs[i] = PublishCall(c, t, d, retain)
        /\ PyBool(retain) =>
              /\ RetainedValue(tq, t) = d
              /\ TimesInvoked(cs, op.cbk) = 1
              /\ \E i \in 1 .. Len(cs) : cs[i] = ReplayCall(op.cbk, t, d)
        /\ ~PyBool(retain) => tq[t].value = None

\* C33: a create with a default d and a callback that succeeds attaches the
\* metadata, leaves the callback subscribed at the topic once and delivers d
\* to the other callbacks subscribed at ancestors; with retain true the topic
\* then holds d and the callback was invoked once, with (topic, d); with
\* retain false nothing is stored.
C33_CreateDefault ==
    [][CreatedWithDefault(lastOp') => CreateDelivers(lastOp', topics, topics', calls')]_vars

\* the same for a default that is not null
C33_NonNullDefault ==
    [][(CreatedWithDefault(lastOp') /\ lastOp'.meta[1].default # None) =>
          CreateDelivers(lastOp', topics, topics', calls')]_vars

\* C39: every invocation of a subscriber callback has the three arguments
\* (topic, value, retain), those of a live publish and those of the replay of
\* the retained values to a new subscriber alike.
C39_SameShape == \A i \in 1 .. Len(calls) : Len(calls[i].args) = 3

\* the invocations of a publish have three arguments, those of a subscribe two
C39_ShapeByPath ==
    \A i \in 1 .. Len(calls) :
       Len(calls[i].args) = IF lastOp.op = "subscribe" THEN 2 ELSE 3


\* number of connection events and of Transport.send calls while the echo
\* generator runs
MaxRunEvents == 5

MaxRunSends == 12

\* The echo generator with a peer that echoes every request: the link comes up
\* (the META requests of the first TX_CONNECTED are lost with a link that goes
\* down during the scan), the echo topics are set, echo is enabled and
\* disabled, and the link goes down, losing what is in flight, or the peer
\* asks for a reset while requests are in flight
NextEchoRun ==
    \/ /\ port0.state \in {ST_INIT, ST_DISCONNECTED} \/ (port0.state = ST_META /\ wire = <<>>)
       /\ Len(evHist) < MaxRunEvents
       /\ Port0Event(TX_CONNECTED)
    \/ /\ port0.state \in {ST_META, ST_CONNECTED}
       /\ Len(evHist) < MaxRunEvents
       /\ Port0LinkDown
    \/ /\ port0.state = ST_CONNECTED
       /\ Len(evHist) < MaxRunEvents
       /\ Port0Event(RX_RESET_REQUEST)
    \/ /\ Len(txHist) < MaxRunSends
       /\ port0.echo_length = 8
       /\ port0.echo_outstanding <= 2
       /\ port0.echo_enable = 0
       /\ Port0EchoEnable(1)
    \/ /\ port0.echo_enable # 0
       /\ Port0EchoEnable(0)
    \/ /\ Len(txHist) < MaxRunSends
       /\ \E k \in {1, 2} : port0.echo_outstanding # k /\ Port0EchoOutstanding(k)
    \/ /\ port0.echo_length # 8
       /\ Port0EchoLength(8)
    \/ /\ Len(txHist) < MaxRunSends
       /\ port0.state # ST_META
       /\ PeerAnswer

SpecEchoRun == InitPort0 /\ [][NextEchoRun]_vars

\* the ECHO requests sent and not answered: the requests on the link, which
\* the peer answers when it takes them
EchoUnanswered ==
    Cardinality({i \in 1 .. Len(wire) :
                    /\ PortIdOf(wire[i].metadata) = 0
                    /\ UnpackOp(PortDataOf(wire[i].metadata)) = OP_ECHO
                    /\ ~UnpackRsp(PortDataOf(wire[i].metadata))})

\* the frame id in the first 8 bytes of an ECHO request
FrameId(r) == UnpackU64(r.msg)

\* C34: no ECHO request is sent while the number of ECHO requests sent and not
\* answered is at or above echo_outstanding: after a step that sent one, that
\* number is at most echo_outstanding.
C34_EchoWindowBound ==
    [][Len(RequestsSent(txHist', OP_ECHO)) > Len(RequestsSent(txHist, OP_ECHO)) =>
          EchoUnanswered' <= port0'.echo_outstanding]_vars

\* the frame id of each ECHO request is that of the request before it plus
\* one, or 0
ConsecutiveIds(reqs) ==
    \A i \in 1 .. Len(reqs) :
       \/ FrameId(reqs[i]) = 0
       \/ i > 1 /\ FrameId(reqs[i]) = FrameId(reqs[i - 1]) + 1

\* C36: the frame ids of consecutive ECHO requests go up by one, from 0 after
\* a reset of the counters, and echo_rx_frame_id is never above
\* echo_tx_frame_id.
C36_FrameIds ==
    /\ ConsecutiveIds(RequestsSent(txHist, OP_ECHO))
    /\ port0.echo_rx_frame_id <= port0.echo_tx_frame_id

\* the first half of C36 alone
C36_ConsecutiveIds == ConsecutiveIds(RequestsSent(txHist, OP_ECHO))


\* number of connection events and of Transport.send calls of the running echo
MaxStallEvents == 3

MaxStallSends == 12

\* the echo topics are set while requests are in flight (length only when
\* inFlight allows it)
EchoSettings(inFlight) ==
    \/ /\ port0.echo_enable = 0
       /\ port0.echo_length \in {8, 9}
       /\ port0.echo_outstanding <= 2
       /\ Port0EchoEnable(1)
    \/ \E k \in {1, 2} : port0.echo_outstanding # k /\ Port0EchoOutstanding(k)
    \/ /\ inFlight \/ port0.echo_enable = 0
       /\ \E n \in {8, 9} : port0.echo_length # n /\ Port0EchoLength(n)

\* the link comes up: the META requests of the first TX_CONNECTED are lost with
\* a link that goes down during the scan, the second TX_CONNECTED gives CONNECTED
EchoLinkUp ==
    \/ /\ port0.state = ST_INIT \/ (port0.state = ST_META /\ wire = <<>>)
       /\ Len(evHist) < MaxStallEvents
       /\ Port0Event(TX_CONNECTED)
    \/ /\ port0.state = ST_META
       /\ wire # <<>>
       /\ Len(evHist) < MaxStallEvents
       /\ Port0LinkDown

\* the peer echoes the oldest request on the link
EchoPeerAnswers ==
    /\ Len(txHist) < MaxStallSends
    /\ port0.state # ST_META
    /\ PeerAnswer

EchoPeerTakes ==
    /\ Len(txHist) < MaxStallSends
    /\ port0.state # ST_META
    /\ PeerTakes

\* The echo generator running against a peer that echoes every request, never
\* disabled and never disconnected once it is connected, with the echo topics
\* set while requests are in flight
NextEchoLive == EchoLinkUp \/ EchoSettings(TRUE) \/ EchoPeerAnswers

SpecEchoLive == InitPort0 /\ [][NextEchoLive]_vars /\ WF_peerTaken(EchoPeerTakes)

\* the same with echo/length set before echo is enabled only
NextEchoSteady == EchoLinkUp \/ EchoSettings(FALSE) \/ EchoPeerAnswers

SpecEchoSteady == InitPort0 /\ [][NextEchoSteady]_vars /\ WF_peerTaken(EchoPeerTakes)

EchoRunning == port0.state = ST_CONNECTED /\ port0.echo_enable # 0

\* C35: while echo is enabled and Port0Server is CONNECTED, with a peer that
\* echoes every request, an ECHO request is on its way to the peer again and
\* again: one is sent after every response, also after echo/length or
\* echo/outstanding was set with requests in flight.
C35_EchoNeverStalls == [](EchoRunning => <>(EchoUnanswered > 0))

\* number of direct calls of PubSubPort.send
MaxDirectSends == 1

\* values at and beyond the limits of send: integers in and out of 0 .. 2^32 - 1,
\* strings that fill a message of 's' to 256 and to 257 bytes
SendValues == PortValues \cup {"'a' * 251", "'a' * 252"}

\* PubSubPort.send called with (topic, value); the messages go to the peer
NextPortSend ==
    \/ /\ pport.n < MaxDirectSends
       /\ \E t \in PortTopics, x \in SendValues : PortReplay(t, x)
    \/ PortLoopback

SpecPortSend == InitPort /\ [][NextPortSend]_vars

\* the topic with its NUL is longer than 32 bytes
TopicTooLong(topic) == Len(Utf8Encode(CodePoints(topic))) + 1 > TOPIC_BYTES_MAX

\* the value is none that send can encode: an integer outside 0 .. 2^32 - 1
Unsupported(x) == x.kind = "int" /\ (x.v[1] < 0 \/ (x.v[1] \div 65536) >= 65536)

\* length byte + topic + NUL + payload-length byte + payload
EncodedSize(topic, x) ==
    1 + Len(Utf8Encode(CodePoints(topic))) + 1 + 1
      + (IF x.kind = "str" THEN Len(Utf8Encode(x.v)) + 1
         ELSE IF x.kind = "int" THEN 4 ELSE 0)

\* the step was a call of PubSubPort.send
SendCalled == pport'.n = pport.n + 1 /\ pport'.how = "replay"

\* C37: PubSubPort.send with a topic longer than 32 bytes with its NUL, with a
\* message longer than 256 bytes or with a value it cannot encode ends with an
\* error and hands nothing to Transport.send; any other call hands one message
\* to Transport.send.
C37_SendRejects ==
    [][SendCalled =>
         IF \/ TopicTooLong(pport'.topic)
            \/ Unsupported(PyOf(pport'.value))
            \/ EncodedSize(pport'.topic, PyOf(pport'.value)) > PORT_MSG_MAX
         THEN /\ pport'.send.error = "ValueError"
              /\ txHist' = txHist
              /\ sendLog' = sendLog
              /\ wire' = wire
         ELSE /\ pport'.send.error = None
              /\ Len(txHist') = Len(txHist) + 1]_vars

\* send('s', 'a' * 252) was refused: no call of Transport.send other than the
\* one of the constructor
C37_Witness ==
    /\ pport.n = 1
    /\ pport.topic = PortTopicS
    /\ pport.value = "'a' * 252"
    /\ pport.send.error = "ValueError"
    /\ Len(txHist) = 1

\* number of messages the peer sends to the PubSubPort
MaxPeerRecv == 2

\* a message of the peer for topic 's': the payload-length byte says n, the
\* payload has k bytes
PeerPortMsg(n, k) == <<1, Ord("s"), 0, n>> \o SubSeq(PackU32(42) \o <<0>>, 1, k)

PeerLengths == {0, 3, 4, 5}

\* port_data of the peer: dtype NULL, CSTR or U32, with and without retain
PeerPortData == {(d + r) * 256 : d \in {PORT_NULL, PORT_CSTR, PORT_U32}, r \in {0, RETAIN}}

\* Transport.on_recv of one message of the peer for the PubSubPort, which goes
\* to PubSubPort.on_recv
PortPeerRecv(port_data, msg) ==
    /\ OnRecv(MetadataOf(port_data, PUBSUB_PORT_ID, SEQ_SINGLE), msg)
    /\ UNCHANGED <<ports, last_tx_event, sendLog, eventLog, evHist, regHist, txHist, wire>>
    /\ \E recv \in {PortOnRecv(port_data, msg)} :
          /\ pport' = PortExchange(pport.n + 1, "received", "peer", PortTopicS, None,
                                   None, PortSendFailed(None), recv)
          /\ IF recv.publish = <<>> THEN UNCHANGED pvars
             ELSE PortRecvPublish(recv.publish[1])
    /\ UNCHANGED <<lvars, cvars, svars, kvars>>

\* Messages with right and wrong payload lengths arriving at the PubSubPort
NextPortRecv ==
    /\ pport.n < MaxPeerRecv
    /\ \E pd \in PeerPortData, n \in PeerLengths, k \in PeerLengths :
          PortPeerRecv(pd, PeerPortMsg(n, k))

SpecPortRecv == InitPort /\ [][NextPortRecv]_vars

\* the message the step handed to PubSubPort.on_recv
PeerReceived == rxHist'[Len(rxHist')]

\* the payload-length byte of a message for 's' and its payload
LengthByte(msg) == msg[4]

PayloadOf(msg) == SubSeq(msg, 5, Len(msg))

LengthMismatch(msg) == LengthByte(msg) # Len(PayloadOf(msg))

\* the payload length is not one of the dtype
LengthInvalid(port_data, msg) ==
    (port_data \div 256) % 16 = PORT_U32 /\ Len(PayloadOf(msg)) # 4

PeerStep == pport'.how = "peer" /\ pport'.n = pport.n + 1

\* on_recv returned without an exception and without a publish, and the
\* PubSub is as it was
WarningOnly ==
    /\ pport'.recv.error = None
    /\ pport'.recv.publish = <<>>
    /\ topics' = topics
    /\ calls' = calls

\* C38: on_recv of a message whose payload-length byte is not the number of
\* payload bytes, or whose payload length is not valid for its dtype, logs a
\* warning and does nothing else: no publish, no exception, the PubSub
\* unchanged.
C38_BadLengthWarns ==
    [][(/\ PeerStep
        /\ \/ LengthMismatch(PeerReceived.payload)
           \/ LengthInvalid(PortDataOf(PeerReceived.metadata), PeerReceived.payload)) =>
          WarningOnly]_vars

\* the first half of C38 alone: the length byte is not the number of bytes
C38_MismatchWarns ==
    [][(PeerStep /\ LengthMismatch(PeerReceived.payload)) => WarningOnly]_vars

\* number of buffers handed to send and of process() calls
MaxTesterSends == 3

MaxTesterRuns == 2

\* the buffers of the tests and an empty one
TesterBuffers == {<<>>, <<0, 1>>, <<1, 2, 3>>}

\* the rates of the tests: none, test_drop_all, test_insert_all,
\* test_byte_drop_rate, byte_insert_rate and bit_error_rate
RateProfiles ==
    {<<0, 0, 0, 0, 0>>, <<1, 0, 0, 0, 0>>, <<0, 1, 0, 0, 0>>, <<0, 0, 1, 0, 0>>,
     <<0, 0, 0, 1, 0>>, <<0, 0, 0, 0, 1>>}

RatesOf(t) ==
    <<t.buffer_drop_rate, t.buffer_insert_rate, t.byte_drop_rate, t.byte_insert_rate,
      t.bit_error_rate>>

\* The StreamTester of the tests: the sides are opened, buffers are queued on
\* both sides, the rates are set and process() is called
NextTester ==
    \/ \E side \in Sides :
          /\ tester[side].recv_cbk = None
          /\ TesterOpen(side, "on_recv", None)
    \/ /\ tester.sends < MaxTesterSends
       /\ \E side \in Sides, buffer \in TesterBuffers : TesterSend(side, buffer)
    \/ \E p \in RateProfiles : RatesOf(tester) # p /\ TesterRates(p)
    \/ /\ tester.runs < MaxTesterRuns
       /\ \E buffer \in {<<7>>}, byte \in {0, 255} : TesterProcess(buffer, byte)

SpecTester == Init /\ [][NextTester]_vars

\* the step was a call of process() with all rates 0 and both sides open
ProcessedClean ==
    /\ tester'.runs = tester.runs + 1
    /\ RatesOf(tester) = <<0, 0, 0, 0, 0>>
    /\ \A side \in Sides : tester[side].recv_cbk # None

\* C31: with all rates 0, process() ends with both send queues empty and has
\* called the recv callback of each side with the buffers queued on the other
\* side, each once, unmodified, in the order they were queued.
C31_CleanTransfer ==
    [][ProcessedClean =>
          /\ tester'.a.send_queue = <<>>
          /\ tester'.b.send_queue = <<>>
          /\ tester'.recv["b"] = tester.recv["b"] \o tester.a.send_queue
          /\ tester'.recv["a"] = tester.recv["a"] \o tester.b.send_queue]_vars

\* a queued [1, 2, 3] and [0, 1], b queued [0, 1]; after process() with all
\* rates 0 each side has what the other queued
C31_Witness ==
    /\ tester.runs = 1
    /\ tester.sends = 3
    /\ RatesOf(tester) = <<0, 0, 0, 0, 0>>
    /\ tester.recv["b"] = <<<<1, 2, 3>>, <<0, 1>>>>
    /\ tester.recv["a"] = <<<<0, 1>>>>
    /\ tester.a.send_queue = <<>>
    /\ tester.b.send_queue = <<>>
=============================================================================
